---- MODULE Spec2Model ----
(***************************************************************************)
(* Model of the gecko-controller control loop                              *)
(* (src/gecko_controller/controller.py) and of the display socket server   *)
(* it publishes frames to (src/gecko_controller/display_socket.py).        *)
(*                                                                         *)
(* Temperatures are integers in tenths of a degree Celsius, times of day   *)
(* are minutes since midnight (the configured on/off times carry no        *)
(* seconds, so comparing the minute of now.time() decides the same way).   *)
(* GPIO levels are booleans: TRUE is GPIO.HIGH.                            *)
(***************************************************************************)
EXTENDS Integers, Sequences, FiniteSets, TLC

VARIABLES
    pc,              \* position of the control_loop coroutine
    temp,            \* control_loop local: temperature of this tick or Absent
    uv,              \* control_loop local: "none" before read_uv, else its result
    light_status,    \* control_loop local: value returned by control_light
    heat_status,     \* control_loop local: value returned by control_heat
    lightPin,        \* output level of config.LIGHT_RELAY
    heatPin,         \* output level of config.HEAT_RELAY
    light_on_time,   \* self.light_on_time
    light_off_time,  \* self.light_off_time
    imageBuf,        \* self.image, the buffer create_display_group draws into
    current_image,   \* DisplaySocketServer.current_image: "none" or the frame held
    tickTrace,       \* the steps the current tick has performed, in order
    ctl,             \* record of the last control step (inputs and outputs)
    memo,            \* one earlier control step kept for comparison
    scen,            \* progress of the hysteresis series 29.5, 30.5, 29.2
    loopTask,        \* the control_loop task: running, cancelling, cancelled, failed
    serveTask,       \* the socket_server task (serve_forever), "absent" without socket
    runPc,           \* position of GeckoController.run
    mainPc,          \* position of main
    cl,              \* the cleanup() call in progress: who called it and where it is
    display_socket,  \* whether self.display_socket is set (setup_socket succeeded)
    server,          \* DisplaySocketServer.server: "none", "open" or "closed"
    sockFile,        \* whether the socket file exists at socket_path
    lock,            \* holder of DisplaySocketServer._lock while suspended, or "free"
    conns,           \* per client connection: state of its _handle_client task
    blocked,         \* the event loop thread waits for ever in Lock.acquire()
    waitsForConns,   \* the interpreter's Server.wait_closed waits for connections
    gpioReleased,    \* GPIO.cleanup() has been called
    setupFault,      \* the setup step that failed during startup, or "none"
    startupExit,     \* exit status of a process that ended in startup, or NoExit
    instance,        \* DisplaySocketServer._instance: "none", "created" (not
                     \* yet _initialized) or "initialized"
    constructions,   \* how many times DisplaySocketServer(...) has been called
    max_attempts,    \* i2c_retry: max_attempts of the wrapped call in progress
    attempt,         \* i2c_retry wrapper: the loop variable
    busCalls,        \* calls of the wrapped primitive made by this wrapper call
    busFails,        \* how many of them raised
    busResult,       \* "idle", "running", or how the wrapper call ended:
                     \* "value", "none" (the fault value) or "raised"
    delay,           \* i2c_retry: delay of the wrapped call, in milliseconds
    attempt_delay,   \* i2c_retry wrapper: the local attempt_delay
    waits,           \* the time.sleep() calls the wrapper call has made
    faultKinds,      \* the kinds of OSError this wrapper call has caught
    clock,           \* time.time(), in seconds
    max_errors,      \* I2CErrorFilter.max_errors
    error_times,     \* I2CErrorFilter.error_times
    suppressed_count, \* I2CErrorFilter.suppressed_count
    logged,          \* timestamps of the should_log_error calls that returned
                     \* True, as far back as one window
    suppressedEver,  \* how many should_log_error calls returned False
    reported,        \* sum of the numbers in the "Suppressed n" lines logged
    frame,           \* the image object passed to send_image: its pixel
                     \* dimensions, its mode and the size of its JPEG encoding
    peer,            \* who answers at socket_path: this "server" or "other"
    max_retries,     \* SocketConfig.max_retries of the client
    gi,              \* per caller: the DisplaySocketClient.get_image call
    clientLock,      \* caller holding DisplaySocketClient._lock, or 0
    clientBlocked,   \* the client's event loop thread waits in Lock.acquire()
    humidity,        \* control_loop local: humidity of this tick or Absent
    uvs,             \* control_loop locals uva, uvb, uvc: values or Absent
    uv_sensor,       \* whether self.uv_sensor is set
    uvAttempt,       \* read_uv: the loop variable attempt
    uvLastError,     \* read_uv: whether last_error is set
    escaped,         \* an exception left read_sensor or read_uv in this tick
    acq,             \* what the bus delivered in this tick
    busHandle,       \* self.bus: an "open" SMBus or one that is "closed"
    faultRun,        \* bus calls of read_sensor that raised since the last
                     \* one that succeeded, counted up to MaxFaultRun
    settings,        \* config.LIGHT_ON_TIME and config.LIGHT_OFF_TIME, each the
                     \* fields of the string between its colons
    parsePc,         \* GeckoController.__init__ at the time settings: "start",
                     \* "done", or "raised" when parse_time_setting raised
    consecutive_errors, \* SSH1106Display.consecutive_errors
    dstack,          \* the display driver's call stack: write_with_retry and
                     \* init_display activations, the innermost last
    dret,            \* what the activation that just ended hands to its
                     \* caller: "True", "False", "returned", "raise" or "none"
    busWrites,       \* write_byte_data calls made since the write_cmd call
                     \* in progress was entered, counted up to MaxBusWrites
    dResult,         \* "idle", "running", or how the write_cmd call ended:
                     \* "True", "False" or "raised"
    dbus,            \* SSH1106Display.bus: an "open" or a "closed" handle
    last_log_time,   \* self.last_log_time
    readings,        \* the lines appended to readings.csv
    delay_in,        \* the time.sleep() of read_sensor the tick is in: "settle",
                     \* "read_retry", "bus_reset", or "none"
    watchdog_interval, \* GeckoControllerWatchdog: whether watchdog_interval is set
    notify_socket,   \* whether NOTIFY_SOCKET is set
    running,         \* GeckoControllerWatchdog.running
    controller_process, \* self.controller_process: "none", or the child "alive" or
                     \* "exited"
    wdMain,          \* the wrapper's main thread: "new", "start_thread", "popen",
                     \* "streaming" or "exited"
    wdThread,        \* the watchdog thread: "not_started", "checking", "sleeping"
                     \* or "ended"
    pings,           \* WATCHDOG=1 datagrams sent, counted up to MaxPings
    wdOut,           \* lines of the child forwarded, counted up to MaxLines
    cfgFile,         \* the content of /etc/gecko-controller/config.py
    backupFile,      \* the content of config.py.bak, or NoFile
    webPc,           \* update_config: "idle", "backup", "write" or "restore"
    webReq,          \* the kind of JSON body of the request in progress
    webResp,         \* the response to the last request: "none", "success" or
                     \* "error"
    cfgBefore,       \* cfgFile when the last request arrived
    reqCount         \* POST /api/config requests received

tickVars == <<pc, temp, uv, light_status, heat_status, tickTrace>>
pinVars == <<lightPin, heatPin, gpioReleased>>
cfgVars == <<light_on_time, light_off_time, display_socket, waitsForConns>>
obsVars == <<ctl, memo, scen>>
frameVars == <<imageBuf, current_image>>
taskVars == <<loopTask, serveTask, runPc, mainPc, cl>>
srvVars == <<server, sockFile, lock, conns, blocked>>
bootVars == <<setupFault, startupExit, instance, constructions>>

\* The variables of the parts modelled beside the running controller.
busVars == <<max_attempts, attempt, busCalls, busFails, busResult, delay,
             attempt_delay, waits, faultKinds>>
logVars == <<clock, max_errors, error_times, suppressed_count, logged,
             suppressedEver, reported>>
cliVars == <<frame, peer, max_retries, gi, clientLock, clientBlocked>>
acqVars == <<humidity, uvs, uv_sensor, uvAttempt, uvLastError, escaped, acq,
             busHandle, faultRun>>
parseVars == <<settings, parsePc>>
\* The display driver (ssh1106.py).
dispVars == <<consecutive_errors, dstack, dret, busWrites, dResult, dbus>>
csvVars == <<last_log_time, readings>>
delayVars == <<delay_in>>
wdVars == <<watchdog_interval, notify_socket, running, controller_process,
            wdMain, wdThread, pings, wdOut>>
webVars == <<cfgFile, backupFile, webPc, webReq, webResp, cfgBefore, reqCount>>
sideVars == <<dispVars, csvVars, delayVars, wdVars, webVars>>
moreVars == <<cliVars, acqVars, parseVars, sideVars>>
extVars == <<bootVars, busVars, logVars, moreVars>>

vars == <<tickVars, pinVars, cfgVars, extVars, obsVars, frameVars, taskVars, srvVars>>

(***************************************************************************)
(* Configuration (src/debian/config.py), in tenths of a degree.            *)
(***************************************************************************)
MIN_TEMP == 150
DAY_TEMP == 300
TEMP_TOLERANCE == 10

\* Optional[float] None: a temperature the sensor did not deliver.
Absent == -1000

\* The process has not ended during startup.
NoExit == -1

\* I2CErrorFilter.should_log_error keeps the errors of the last 60 seconds.
WINDOW == 60

\* Largest max_attempts and max_errors_per_minute considered, the cap on
\* suppressed_count and the last clock reading considered.
MaxAttempts == 3
MaxErrors == 2
MaxSuppressed == 2
MaxClock == 120

\* Constructions of DisplaySocketServer considered in one process.
MaxConstructions == 3

\* SocketConfig.max_size, in bytes.
MAX_SIZE == 10485760

\* SocketConfig.max_retries as packaged.
MAX_RETRIES == 10

\* Largest max_retries considered and connection attempts of one
\* get_image call followed.
MaxRetries == 2
MaxClientAttempts == 3

\* Coroutines of one client process that call get_image.
Callers == {1, 2}

\* calculate_uv_correction for the packaged geometry, in thousandths.
UV_CORRECTION == 2828

\* Bounds of read_uv: the largest raw value accepted and the largest
\* corrected value kept, in uW/cm2.
UV_RAW_MAX == 1000000
UV_CORRECTED_MAX == 100000

\* "retries = 3" of read_sensor and of read_uv.
RETRIES == 3

\* How far consecutive bus faults are counted.
MaxFaultRun == 2

\* LOG_INTERVAL, in seconds, and a reading of time.time() (seconds since
\* 1970) while the controller runs.
LOG_INTERVAL == 60
time_time == 1762300800

\* How far the watchdog wrapper's pings and forwarded lines are counted.
MaxPings == 2
MaxLines == 2

\* How many POST /api/config requests are followed.
MaxRequests == 3

\* self.MAX_RETRY_COUNT of the display driver.
MAX_RETRY_COUNT == 3

\* init_display: the tries of the first command (while retry_count < 3) and
\* the number of write_cmd calls of one run, 0xAE and the 24 of init_sequence.
INIT_RETRIES == 3
INIT_COMMANDS == 25

\* The interpreter's recursion limit, in activations of write_with_retry
\* and init_display, and how far bus writes are counted.
MaxDepth == 3
MaxBusWrites == 4

\* Seconds that pass between two steps of the bus access.
ClockSteps == {30, 59, 60}

\* Temperatures read_sensor can return: below, on the edge of, inside and
\* above the band around MIN_TEMP and around DAY_TEMP.
TempSamples == {135, 150, 285, 290, 292, 295, 305, 310, 315}

\* Times of day datetime.now().time() can return, around the window edges.
TimeSamples == {0, 449, 450, 480, 1169, 1170, 1200, 1439}

\* (LIGHT_ON_TIME, LIGHT_OFF_TIME) settings: the packaged 07:30-19:30, an
\* inverted window, and the midnight fallback of parse_time_setting.
WindowSamples == {<<450, 1170>>, <<1170, 450>>, <<0, 0>>}

\* Client connections considered at a time.
MaxClients == 2
Clients == 1..MaxClients

\* The hysteresis series of the specification's example.
Series == <<295, 305, 292>>

(***************************************************************************)
(* The control policy.                                                     *)
(***************************************************************************)
\* get_target_temp: DAY_TEMP inside the light window, MIN_TEMP outside.
get_target_temp(now) ==
    IF light_on_time <= now /\ now < light_off_time THEN DAY_TEMP ELSE MIN_TEMP

\* control_light with the off-time included in the window.
control_light_offInclusive(now) == light_on_time <= now /\ now <= light_off_time

\* control_light: the level written to LIGHT_RELAY, which is also returned.
control_light(now) == light_on_time <= now /\ now < light_off_time

\* control_heat falling through to the relay level for an absent temperature.
control_heat_absentKeepsRelay(current_temp, target, pinLevel) ==
    IF current_temp # Absent /\ current_temp < target - TEMP_TOLERANCE
    THEN [pin |-> TRUE, ret |-> TRUE]
    ELSE IF current_temp # Absent /\ current_temp > target + TEMP_TOLERANCE
         THEN [pin |-> FALSE, ret |-> FALSE]
         ELSE [pin |-> pinLevel, ret |-> pinLevel]

\* control_heat switching off above the target itself, without tolerance.
control_heat_noUpperTolerance(current_temp, target, pinLevel) ==
    IF current_temp = Absent
    THEN [pin |-> pinLevel, ret |-> FALSE]
    ELSE IF current_temp < target - TEMP_TOLERANCE
         THEN [pin |-> TRUE, ret |-> TRUE]
         ELSE IF current_temp > target
              THEN [pin |-> FALSE, ret |-> FALSE]
              ELSE [pin |-> pinLevel, ret |-> pinLevel]

\* control_heat: [pin |-> level of HEAT_RELAY afterwards, ret |-> return value].
\* An absent temperature returns False without touching the relay; inside
\* the band the return value is GPIO.input(HEAT_RELAY).
control_heat(current_temp, target, pinLevel) ==
    IF current_temp = Absent
    THEN [pin |-> pinLevel, ret |-> FALSE]
    ELSE IF current_temp < target - TEMP_TOLERANCE
         THEN [pin |-> TRUE, ret |-> TRUE]
         ELSE IF current_temp > target + TEMP_TOLERANCE
              THEN [pin |-> FALSE, ret |-> FALSE]
              ELSE [pin |-> pinLevel, ret |-> pinLevel]

\* Two successive readings of the wall clock inside one control step: the
\* second is the first or the next sample after it (00:00 follows 23:59).
LaterOrSame(t1, t2) ==
    \/ t2 = t1
    \/ t2 > t1 /\ \A t \in TimeSamples : ~(t1 < t /\ t < t2)
    \/ t1 = 1439 /\ t2 = 0

(***************************************************************************)
(* Observers of the control step, used to state the claims.                *)
(***************************************************************************)
NoCtl == [n |-> 0, temp |-> Absent, now1 |-> 0, now2 |-> 0, target |-> 0,
          prev |-> FALSE, raised |-> "none", light |-> FALSE, heat |-> FALSE]

NoMemo == [n |-> 0, temp |-> Absent, now1 |-> 0, now2 |-> 0, target |-> 0,
           prev |-> FALSE, raised |-> "none", light |-> FALSE, heat |-> FALSE]

\* Progress through Series: a tick continues the series when it is the next
\* temperature evaluated against target 30.0 without raising; the first one
\* also needs heat_status = TRUE before it.
ScenNext(s, c) ==
    LET fits(k) == c.raised = "none" /\ c.temp = Series[k] /\ c.target = DAY_TEMP
    IN  IF s.k < 3 /\ s.k > 0 /\ fits(s.k + 1)
        THEN [k |-> s.k + 1, out |-> Append(s.out, c.heat)]
        ELSE IF fits(1) /\ c.prev
             THEN [k |-> 1, out |-> <<c.heat>>]
             ELSE [k |-> 0, out |-> <<>>]

(***************************************************************************)
(* The bus access wrapper (system-improvements/i2c-resilient-wrapper.py).  *)
(***************************************************************************)
\* The module as loaded: no wrapped call in progress, error_filter =
\* I2CErrorFilter() with an empty error_times.
InitBus(ME) ==
    /\ max_attempts = 0
    /\ attempt = 0
    /\ busCalls = 0
    /\ busFails = 0
    /\ busResult = "idle"
    /\ delay = 0
    /\ attempt_delay = 0
    /\ waits = <<>>
    /\ faultKinds = {}
    /\ suppressedEver = 0
    /\ reported = 0
    /\ clock = 0
    /\ max_errors \in ME
    /\ error_times = <<>>
    /\ suppressed_count = 0
    /\ logged = <<>>

\* should_log_error with the length test off by one.
should_log_error_offByOne(now) ==
    LET kept == SelectSeq(error_times, LAMBDA t : now - t < WINDOW)
    IN  IF Len(kept) <= max_errors
        THEN [error_times |-> Append(kept, now), suppressed_count |-> 0,
              summary |-> suppressed_count, ret |-> TRUE]
        ELSE [error_times |-> kept, suppressed_count |-> suppressed_count + 1,
              summary |-> 0, ret |-> FALSE]

\* should_log_error that logs the summary line and keeps the counter.
should_log_error_keepsCount(now) ==
    LET kept == SelectSeq(error_times, LAMBDA t : now - t < WINDOW)
    IN  IF Len(kept) < max_errors
        THEN [error_times |-> Append(kept, now),
              suppressed_count |-> suppressed_count,
              summary |-> suppressed_count, ret |-> TRUE]
        ELSE [error_times |-> kept, suppressed_count |-> suppressed_count + 1,
              summary |-> 0, ret |-> FALSE]

\* I2CErrorFilter.should_log_error at time now: the filter's state
\* afterwards, the number in the "Suppressed n similar I2C errors" line it
\* logs (0: no line) and the value returned.
should_log_error(now) ==
    LET kept == SelectSeq(error_times, LAMBDA t : now - t < WINDOW)
    IN  IF Len(kept) < max_errors
        THEN [error_times |-> Append(kept, now), suppressed_count |-> 0,
              summary |-> suppressed_count, ret |-> TRUE]
        ELSE [error_times |-> kept, suppressed_count |-> suppressed_count + 1,
              summary |-> 0, ret |-> FALSE]

\* The exceptions the wrapper catches: exceptions = (OSError, IOError).
Caught(e) == e = "OSError"

\* What the wrapped primitive does in one call: returns, raises OSError
\* (a bus error), or raises something else (TypeError on a closed bus).
PrimitiveOutcomes == {"ok", "OSError", "TypeError"}

\* The default of i2c_retry's backoff, which no use of the decorator overrides.
BACKOFF == 2

\* What str(e) of a caught OSError contains: "[Errno 121]" (the device does
\* not respond), "[Errno 5]" (a bus error) or neither.
FaultKinds == {"Errno121", "Errno5", "other"}

\* The delays the wrapper is applied with (delay=0.05 and delay=0.1), in
\* milliseconds.
Delays == {50, 100}

\* attempt_delay after the except block for a fault of kind k.
NextDelay(k, d, att, ma) ==
    (IF k = "Errno5" /\ att < ma - 1 THEN d * 2 ELSE d) * BACKOFF

\* A caller invokes a wrapped operation decorated with max_attempts = n.
BusCall ==
    /\ busResult # "running"
    /\ \E n \in 1..MaxAttempts : max_attempts' = n
    /\ \E d \in Delays : delay' = d /\ attempt_delay' = d
    /\ waits' = <<>>
    /\ faultKinds' = {}
    /\ attempt' = 0
    /\ busCalls' = 0
    /\ busFails' = 0
    /\ busResult' = "running"
    /\ UNCHANGED <<tickVars, pinVars, cfgVars, bootVars, logVars, moreVars, obsVars, frameVars,
                   taskVars, srvVars>>

\* One iteration of "for attempt in range(max_attempts)": after the first
\* iteration the wrapper sleeps attempt_delay; the primitive is
\* called; its result is returned; a caught exception goes through the
\* error filter and ends the call with None on the last attempt; any other
\* exception leaves the wrapper.
BusAttempt ==
    /\ busResult = "running"
    /\ attempt < max_attempts
    /\ waits' = IF attempt > 0 THEN Append(waits, attempt_delay) ELSE waits
    /\ \E o \in PrimitiveOutcomes, k \in FaultKinds :
          LET f == should_log_error(clock)
          IN  /\ busCalls' = busCalls + 1
              /\ busFails' = IF o = "ok" THEN busFails ELSE busFails + 1
              /\ IF o = "ok"
                 THEN /\ busResult' = "value"
                      /\ UNCHANGED <<attempt, logVars, attempt_delay, faultKinds>>
                 ELSE IF ~Caught(o)
                      THEN /\ busResult' = "raised"
                           /\ UNCHANGED <<attempt, logVars, attempt_delay,
                                          faultKinds>>
                      ELSE /\ f.suppressed_count <= MaxSuppressed
                           /\ faultKinds' = faultKinds \cup {k}
                           /\ attempt_delay' =
                                 NextDelay(k, attempt_delay, attempt, max_attempts)
                           /\ suppressedEver' =
                                 IF f.ret THEN suppressedEver ELSE suppressedEver + 1
                           /\ reported' = reported + f.summary
                           /\ error_times' = f.error_times
                           /\ suppressed_count' = f.suppressed_count
                           /\ logged' =
                                 IF f.ret
                                 THEN Append(SelectSeq(logged,
                                          LAMBDA t : t > clock - WINDOW), clock)
                                 ELSE logged
                           /\ IF attempt >= max_attempts - 1
                              THEN busResult' = "none" /\ UNCHANGED attempt
                              ELSE attempt' = attempt + 1 /\ UNCHANGED busResult
                           /\ UNCHANGED <<clock, max_errors>>
    /\ UNCHANGED <<tickVars, pinVars, cfgVars, bootVars, moreVars, max_attempts,
                   delay, obsVars, frameVars, taskVars, srvVars>>

\* Time passes: the sleep between attempts, or the time between calls.
ClockAdvance ==
    /\ \E d \in ClockSteps : clock + d <= MaxClock /\ clock' = clock + d
    /\ UNCHANGED <<tickVars, pinVars, cfgVars, bootVars, busVars, moreVars, max_errors,
                   error_times, suppressed_count, logged, suppressedEver,
                   reported, obsVars, frameVars, taskVars, srvVars>>

(***************************************************************************)
(* The display driver as constructed (SSH1106Display.__init__) with every  *)
(* command of init_display written.                                        *)
(***************************************************************************)
InitDisplay ==
    /\ consecutive_errors = 0
    /\ dstack = <<>>
    /\ dret = "none"
    /\ busWrites = 0
    /\ dResult = "idle"
    /\ dbus = "open"

InitReadings ==
    /\ last_log_time = 0
    /\ readings = <<>>

InitDelay ==
    /\ delay_in = "none"

InitWatchdog ==
    /\ watchdog_interval = FALSE
    /\ notify_socket = FALSE
    /\ running = TRUE
    /\ controller_process = "none"
    /\ wdMain = "new"
    /\ wdThread = "not_started"
    /\ pings = 0
    /\ wdOut = 0

\* A config file: the request that wrote it (0: the installed file) and
\* whether load_config_module loads and validates it.
InstalledConfig == [id |-> 0, loads |-> TRUE]
NoFile == [id |-> -1, loads |-> FALSE]

InitWeb ==
    /\ cfgFile = InstalledConfig
    /\ backupFile = NoFile
    /\ webPc = "idle"
    /\ webReq = "none"
    /\ webResp = "none"
    /\ cfgBefore = InstalledConfig
    /\ reqCount = 0

InitSide == InitDisplay /\ InitReadings /\ InitDelay /\ InitWatchdog /\ InitWeb

(***************************************************************************)
(* The time settings (parse_time_setting).                                 *)
(***************************************************************************)
\* A field of a setting: the text between two colons, which int() accepts
\* as the number val or rejects.
Num(n) == [num |-> TRUE, val |-> n, wide |-> FALSE]
Text == [num |-> FALSE, val |-> 0, wide |-> FALSE]

\* A field with a number that does not fit a C int (2147483648 and more);
\* val stands for it in range tests.
Wide == [num |-> TRUE, val |-> 100, wide |-> TRUE]

\* The packaged LIGHT_ON_TIME = "07:30" and LIGHT_OFF_TIME = "19:30".
PackagedSettings == <<<<Num(7), Num(30)>>, <<Num(19), Num(30)>>>>

\* The constructor has run with the packaged settings.
InitSettings ==
    /\ settings = PackagedSettings
    /\ parsePc = "done"

(***************************************************************************)
(* Acquisition (read_sensor, read_uv).                                     *)
(***************************************************************************)
NoUV == <<Absent, Absent, Absent>>

\* Nothing read from the bus yet in this tick.
NoAcq == [sensor |-> "none", rawT |-> 0, rawH |-> 0, uv |-> "none", rawUV |-> NoUV,
          reset |-> FALSE]

InitAcq(US) ==
    /\ humidity = Absent
    /\ uvs = NoUV
    /\ uv_sensor \in US
    /\ uvAttempt = 0
    /\ uvLastError = FALSE
    /\ escaped = FALSE
    /\ acq = NoAcq
    /\ busHandle = "open"
    /\ faultRun = 0

(***************************************************************************)
(* Frames and the display socket client (display_socket.py).               *)
(***************************************************************************)
\* self.image of the controller: Image.new('1', (128, 64), 255).
ControllerImage == [dims |-> <<128, 64>>, mode |-> "1", bytes |-> 2048, valid |-> TRUE]

NoImage == [dims |-> <<0, 0>>, mode |-> "none", bytes |-> 0, valid |-> FALSE]

\* Images send_image can be given: the controller's, a small one, and two
\* whose encoding is as large as max_size and one byte larger.
Frames ==
    {ControllerImage,
     [dims |-> <<1, 1>>, mode |-> "L", bytes |-> 700, valid |-> TRUE],
     [dims |-> <<4096, 4096>>, mode |-> "RGB", bytes |-> MAX_SIZE, valid |-> TRUE],
     [dims |-> <<4096, 4096>>, mode |-> "RGB", bytes |-> MAX_SIZE + 1, valid |-> TRUE]}

\* No get_image call: the client as constructed.
NoResult == [ok |-> FALSE, image |-> NoImage, error |-> "none"]
NoWire == [len |-> 0, status |-> "none", image |-> NoImage]
IdleCall == [pc |-> "idle", attempts |-> 0, last_error |-> "none",
             wire |-> NoWire, parsed |-> "none", result |-> NoResult]

InitClient(P, MR) ==
    /\ frame = ControllerImage
    /\ peer \in P
    /\ max_retries \in MR
    /\ gi = [k \in Callers |-> IdleCall]
    /\ clientLock = 0
    /\ clientBlocked = FALSE

(***************************************************************************)
(* Initial state: after GeckoController.__init__ (setup_gpio drives both   *)
(* relays LOW, the image buffer is blank), setup_socket and the creation   *)
(* of the tasks in run(); main waits for the shutdown event.               *)
(***************************************************************************)
InitWithSensor(WS, DS, US) ==
    /\ InitAcq(US)
    /\ loopTask = "running"
    /\ runPc = "gather"
    /\ mainPc = "wait_signal"
    /\ cl = [by |-> "none", pc |-> "idle"]
    /\ display_socket \in DS
    /\ serveTask = (IF display_socket THEN "running" ELSE "absent")
    /\ server = (IF display_socket THEN "open" ELSE "none")
    /\ sockFile = display_socket
    /\ lock = "free"
    /\ conns = [c \in Clients |-> "idle"]
    /\ blocked = FALSE
    /\ waitsForConns \in BOOLEAN
    /\ gpioReleased = FALSE
    /\ pc = "read_sensor"
    /\ temp = Absent
    /\ uv = "none"
    /\ light_status = FALSE
    /\ heat_status = FALSE
    /\ lightPin = FALSE
    /\ heatPin = FALSE
    /\ \E w \in WS : light_on_time = w[1] /\ light_off_time = w[2]
    /\ imageBuf = "blank"
    /\ current_image = "none"
    /\ tickTrace = <<>>
    /\ ctl = NoCtl
    /\ memo = NoMemo
    /\ scen = [k |-> 0, out |-> <<>>]
    /\ setupFault = "none"
    /\ startupExit = NoExit
    /\ instance = (IF display_socket THEN "initialized" ELSE "created")
    /\ constructions = 1
    /\ InitBus({1})
    /\ InitSide
    /\ InitClient({"server"}, {MAX_RETRIES})
    /\ InitSettings

InitWith(WS, DS) == InitWithSensor(WS, DS, {TRUE})

(***************************************************************************)
(* One iteration of control_loop, split at its suspension points.          *)
(***************************************************************************)
\* The control_loop task takes a step: it has not been cancelled and the
\* process is alive.
LoopRuns == loopTask = "running" /\ ~blocked /\ mainPc # "exited"

\* Where control_loop is suspended in an await (read_uv, the executor
\* rendering and showing the frame, the sleeps), so that the event loop
\* runs other coroutines; elsewhere it runs synchronously to the next await.
Suspended == pc \in {"read_uv", "render", "send_image", "sleep", "pause"}

\* The loop body with the policy evaluated before the UV acquisition.
After_policyBeforeUV(step) ==
    CASE step = "read_sensor" -> "control"
      [] step = "control" -> "read_uv"
      [] step = "read_uv" -> "render"
      [] step = "render" -> "send_image"
      [] step = "send_image" -> "sleep"
      [] OTHER -> "read_sensor"

\* The statement order of the loop body: the step that follows each step
\* when it completes.
After(step) ==
    CASE step = "read_sensor" -> "read_uv"
      [] step = "read_uv" -> "control"
      [] step = "control" -> "render"
      [] step = "render" -> "send_image"
      [] step = "send_image" -> "sleep"
      [] OTHER -> "read_sensor"

\* temp, humidity = self.read_sensor(): synchronous, never raises.
TickReadSensor(TS) ==
    /\ LoopRuns
    /\ pc = "read_sensor"
    /\ \E t \in TS \cup {Absent} : temp' = t
    /\ uv' = "none"
    /\ tickTrace' = <<"read_sensor">>
    /\ pc' = After("read_sensor")
    /\ UNCHANGED <<light_status, heat_status, pinVars, cfgVars, extVars, obsVars,
                   frameVars, taskVars, srvVars>>

\* uva, uvb, uvc = await self.read_uv()
TickReadUV ==
    /\ LoopRuns
    /\ pc = "read_uv"
    /\ \E r \in {"values", "absent"} : uv' = r
    /\ tickTrace' = Append(tickTrace, "read_uv")
    /\ pc' = After("read_uv")
    /\ UNCHANGED <<temp, light_status, heat_status, pinVars, cfgVars, extVars, obsVars,
                   frameVars, taskVars, srvVars>>

\* The outcome of the "Control state updates" block for clock readings now1
\* (control_light) and now2 (get_target_temp in control_heat) and for the
\* place, if any, where a GPIO call raises.
ControlOutcome(now1, now2, raised) ==
    LET target == get_target_temp(now2)
        h == control_heat(temp, target, heatPin)
    IN  CASE raised = "light" ->
               [lightPin |-> lightPin, heatPin |-> heatPin,
                light |-> FALSE, heat |-> FALSE, target |-> 0]
          [] raised = "heat" ->
               [lightPin |-> control_light(now1), heatPin |-> heatPin,
                light |-> FALSE, heat |-> FALSE, target |-> target]
          [] OTHER ->
               [lightPin |-> control_light(now1), heatPin |-> h.pin,
                light |-> control_light(now1), heat |-> h.ret,
                target |-> IF temp = Absent THEN 0 ELSE target]

\* light_status = self.control_light(); heat_status = self.control_heat(temp)
\* with "except Exception: light_status = heat_status = False".
\* NS, RS: the clock readings and raise places considered; observe: "off",
\* "last" (the step is recorded in ctl and scen) or "memo" (it may also be
\* kept in memo).
TickControl(NS, RS, observe) ==
    /\ LoopRuns
    /\ pc = "control"
    /\ \E now1 \in NS, now2 \in NS, raised \in RS :
          /\ LaterOrSame(now1, now2)
          /\ raised = "heat" => temp # Absent
          /\ LET o == ControlOutcome(now1, now2, raised)
                 c == [n |-> IF ctl.n = 0 THEN 1 ELSE 2, temp |-> temp,
                       now1 |-> now1, now2 |-> now2, target |-> o.target,
                       prev |-> heat_status, raised |-> raised,
                       light |-> o.light, heat |-> o.heat]
             IN  /\ lightPin' = o.lightPin
                 /\ heatPin' = o.heatPin
                 /\ light_status' = o.light
                 /\ heat_status' = o.heat
                 /\ ctl' = IF observe = "off" THEN ctl ELSE c
                 /\ scen' = IF observe = "off" THEN scen ELSE ScenNext(scen, c)
                 /\ memo' \in (IF observe = "memo" /\ memo.n = 0
                               THEN {memo, c} ELSE {memo})
    /\ tickTrace' = Append(tickTrace, "control")
    /\ pc' = After("control")
    /\ UNCHANGED <<temp, uv, gpioReleased, cfgVars, extVars, frameVars, taskVars, srvVars>>

\* update_display: create_display_group draws the frame into self.image; a
\* failure is logged and send_image is skipped.
TickRender ==
    /\ LoopRuns
    /\ pc = "render"
    /\ \E ok \in BOOLEAN :
          IF ok
          THEN /\ imageBuf' = "frame"
               /\ tickTrace' = Append(tickTrace, "render")
               /\ pc' = After("render")
          ELSE /\ imageBuf' = "partial"
               /\ tickTrace' = Append(tickTrace, "render_failed")
               /\ pc' = "sleep"
    /\ UNCHANGED <<temp, uv, light_status, heat_status, pinVars, cfgVars, extVars, obsVars,
                   current_image, taskVars, srvVars>>

\* The worker thread of run_in_executor is inside create_display_group,
\* drawing into self.image, while control_loop is suspended waiting for it.
Drawing == pc = "render" /\ loopTask \in {"running", "cancelling"}

\* What the frame held by the server shows. send_image stores the reference
\* it is given, and update_display always passes self.image: the frame held
\* is the controller's one image buffer, with whatever it holds now.
HeldFrame ==
    IF current_image = "none" THEN "none"
    ELSE IF Drawing THEN "drawing" ELSE imageBuf

\* The physical display is shown, then "if self.display_socket: await
\* self.display_socket.send_image(self.image)": under the server's lock the
\* server's current_image becomes self.image.
TickSendImage ==
    /\ LoopRuns
    /\ pc = "send_image"
    /\ IF ~display_socket
       THEN UNCHANGED <<current_image, blocked, tickTrace>>
       ELSE IF lock # "free"
            THEN blocked' = TRUE /\ UNCHANGED <<current_image, tickTrace>>
            ELSE /\ current_image' = "image"
                 /\ tickTrace' = Append(tickTrace, "send_image")
                 /\ UNCHANGED blocked
    /\ pc' = After("send_image")
    /\ UNCHANGED <<temp, uv, light_status, heat_status, pinVars, cfgVars, extVars, obsVars,
                   imageBuf, taskVars, server, sockFile, lock, conns>>

\* await asyncio.sleep(10), then the next iteration.
TickSleep ==
    /\ LoopRuns
    /\ pc = "sleep"
    /\ pc' = After("sleep")
    /\ UNCHANGED <<temp, uv, light_status, heat_status, tickTrace, pinVars, cfgVars, extVars,
                   obsVars, frameVars, taskVars, srvVars>>

\* An outer handler that lets the error end the task.
OnTickError_propagates == [task |-> "failed", pc |-> "ended"]

\* What the loop's outer handler does with an error raised in the loop body
\* outside the inner try blocks: "except Exception" logs it and goes on to
\* the pause.
OnTickError == [task |-> "running", pc |-> "pause"]

\* An unexpected error in the loop body, caught by the outer handler.
TickUnexpectedError ==
    /\ LoopRuns
    /\ pc \in {"read_sensor", "read_uv", "control", "render", "send_image", "sleep"}
    /\ loopTask' = OnTickError.task
    /\ pc' = OnTickError.pc
    /\ tickTrace' = <<>>
    /\ UNCHANGED <<temp, uv, light_status, heat_status, pinVars, cfgVars, extVars, obsVars,
                   frameVars, serveTask, runPc, mainPc, cl, srvVars>>

\* await asyncio.sleep(1) after a caught error, then the next iteration.
TickPause ==
    /\ LoopRuns
    /\ pc = "pause"
    /\ pc' = "read_sensor"
    /\ UNCHANGED <<temp, uv, light_status, heat_status, tickTrace, pinVars, cfgVars, extVars,
                   obsVars, frameVars, taskVars, srvVars>>

(***************************************************************************)
(* The event loop runs one coroutine at a time: another coroutine takes a  *)
(* step only while control_loop is suspended or has ended.                 *)
(***************************************************************************)
LoopYields == ~blocked /\ mainPc # "exited" /\ (loopTask # "running" \/ Suspended)

\* A connection that Server.wait_closed counts: accepted and not yet lost.
ActiveConns == {c \in Clients : conns[c] # "idle"}

\* Whether "await self.server.wait_closed()" suspends after close(): only
\* when the interpreter's wait_closed waits for the open connections.
WaitClosedPending == waitsForConns /\ ActiveConns # {}

TaskDone(t) == t \in {"cancelled", "failed", "absent"}

(***************************************************************************)
(* Client connections (DisplaySocketServer._handle_client).                *)
(***************************************************************************)
\* A client connects to the listening socket: asyncio accepts and schedules
\* a _handle_client task.
Connect(c) ==
    /\ LoopYields
    /\ server = "open"
    /\ conns[c] = "idle"
    /\ conns' = [conns EXCEPT ![c] = "accepted"]
    /\ UNCHANGED <<tickVars, pinVars, cfgVars, extVars, obsVars, frameVars, taskVars,
                   server, sockFile, lock, blocked>>

\* Whether "await self._compress_image(self.current_image)" suspends the
\* handler: _compress_image is an ordinary function returning bytes, so the
\* await raises TypeError at once and the handler is never suspended there.
CompressAwaitSuspends_async == TRUE

CompressAwaitSuspends == FALSE

\* A handler that never writes.
HandlerResponse_silent == "sent_nothing"

\* What the handler has written when it reaches "finally": with a frame the
\* TypeError is caught by the handler's "except Exception" and nothing is
\* written; without a frame the error envelope is written.
HandlerResponse == IF current_image # "none" THEN "sent_nothing" ELSE "sent_error"

\* _handle_client up to "await writer.wait_closed()": it takes the lock
\* with a blocking acquire, builds the response inside the lock, writes it
\* and closes the connection.
HandleClient(c) ==
    /\ LoopYields
    /\ conns[c] \in {"accepted", "compressing"}
    /\ IF conns[c] = "compressing"
       THEN /\ conns' = [conns EXCEPT ![c] = "sent_image"]
            /\ lock' = "free"
            /\ UNCHANGED blocked
       ELSE IF lock # "free"
            THEN blocked' = TRUE /\ UNCHANGED <<conns, lock>>
            ELSE IF current_image # "none" /\ CompressAwaitSuspends
                 THEN /\ conns' = [conns EXCEPT ![c] = "compressing"]
                      /\ lock' = "handler"
                      /\ UNCHANGED blocked
                 ELSE /\ conns' = [conns EXCEPT ![c] = HandlerResponse]
                      /\ UNCHANGED <<blocked, lock>>
    /\ UNCHANGED <<tickVars, pinVars, cfgVars, extVars, obsVars, frameVars, taskVars,
                   server, sockFile>>

\* The connection is lost; the handler removes itself and ends.
HandlerClosed(c) ==
    /\ LoopYields
    /\ conns[c] \in {"sent_nothing", "sent_error", "sent_image"}
    /\ conns' = [conns EXCEPT ![c] = "idle"]
    /\ UNCHANGED <<tickVars, pinVars, cfgVars, extVars, obsVars, frameVars, taskVars,
                   server, sockFile, lock, blocked>>

(***************************************************************************)
(* Tasks and shutdown (run, cleanup, main, serve_forever).                 *)
(***************************************************************************)
\* task.cancel() on a task that has not ended.
Cancel(t) == IF t = "running" THEN "cancelling" ELSE t

\* Server.close(): the listener stops accepting.
Closed(srv) == IF srv = "open" THEN "closed" ELSE srv

\* The control_loop task is resumed with CancelledError, which no handler of
\* the loop catches: the coroutine ends and its locals are gone.
LoopCancelled ==
    /\ ~blocked /\ mainPc # "exited"
    /\ loopTask = "cancelling"
    /\ loopTask' = "cancelled"
    /\ pc' = "ended"
    /\ temp' = Absent
    /\ uv' = "none"
    /\ tickTrace' = <<>>
    /\ UNCHANGED <<light_status, heat_status, pinVars, cfgVars, extVars, obsVars, frameVars,
                   serveTask, runPc, mainPc, cl, srvVars>>

\* serve_forever raises: "async with self.server" closes the server and
\* waits for it, then the error is logged and raised again.
ServeFails ==
    /\ LoopYields
    /\ serveTask = "running"
    /\ server' = Closed(server)
    /\ serveTask' = IF WaitClosedPending THEN "failing" ELSE "failed"
    /\ UNCHANGED <<tickVars, pinVars, cfgVars, extVars, obsVars, frameVars, loopTask,
                   runPc, mainPc, cl, sockFile, lock, conns, blocked>>

\* The socket_server task after cancellation or failure: Server.close(),
\* then wait_closed(), then the task ends.
ServeTaskStep ==
    /\ LoopYields
    /\ serveTask \in {"cancelling", "closing", "failing"}
    /\ IF serveTask = "cancelling"
       THEN /\ server' = Closed(server)
            /\ serveTask' = IF WaitClosedPending THEN "closing" ELSE "cancelled"
       ELSE /\ ~WaitClosedPending
            /\ serveTask' = IF serveTask = "closing" THEN "cancelled" ELSE "failed"
            /\ UNCHANGED server
    /\ UNCHANGED <<tickVars, pinVars, cfgVars, extVars, obsVars, frameVars, loopTask,
                   runPc, mainPc, cl, sockFile, lock, conns, blocked>>

\* cleanup() from its start to its first await: inside asyncio.timeout(10)
\* it cancels the tasks that are not done and awaits them; with none
\* pending it goes on to stopping the socket server.
AfterGather == IF display_socket THEN "stop" ELSE "gpio"

CleanupEnter(by) ==
    /\ loopTask' = Cancel(loopTask)
    /\ serveTask' = Cancel(serveTask)
    /\ cl' = [by |-> by,
              pc |-> IF TaskDone(loopTask) /\ TaskDone(serveTask)
                     THEN AfterGather ELSE "gather"]

\* cleanup() returns to its caller: run() ends (raising again what it
\* caught, or the cancellation that reached it meanwhile), main() goes on
\* to sys.exit.
CleanupReturn ==
    /\ cl' = [by |-> "none", pc |-> "idle"]
    /\ IF cl.by = "run"
       THEN /\ runPc' = CASE runPc = "cleanup_exc" -> "failed"
                          [] runPc = "cleanup_cancelling" -> "cancelled"
                          [] OTHER -> "done"
            /\ UNCHANGED mainPc
       ELSE /\ mainPc' = "exited"
            /\ UNCHANGED runPc

\* The shutdown signal: main() wakes up, cancels the run() task and awaits
\* it. Cancelling run() in gather cancels both tasks; cancelling it inside
\* its cleanup() ends that cleanup where it is suspended, except that a
\* cancelled gather only completes once the tasks it waits for have ended.
Signal ==
    /\ LoopYields
    /\ mainPc = "wait_signal"
    /\ mainPc' = "await_run"
    /\ IF runPc = "gather"
       THEN /\ loopTask' = Cancel(loopTask)
            /\ serveTask' = Cancel(serveTask)
            /\ UNCHANGED <<runPc, cl, lock>>
       ELSE IF runPc = "cleanup_exc" /\ cl.pc = "gather"
            THEN /\ runPc' = "cleanup_cancelling"
                 /\ UNCHANGED <<cl, lock, loopTask, serveTask>>
            ELSE IF runPc = "cleanup_exc"
                 THEN /\ runPc' = "cancelled"
                      /\ cl' = [by |-> "none", pc |-> "idle"]
                      /\ lock' = IF lock = "stop" THEN "free" ELSE lock
                      /\ UNCHANGED <<loopTask, serveTask>>
                 ELSE UNCHANGED <<runPc, cl, lock, loopTask, serveTask>>
    /\ UNCHANGED <<tickVars, pinVars, cfgVars, extVars, obsVars, frameVars, server,
                   sockFile, conns, blocked>>

\* run() wakes up from asyncio.gather: with the exception of a failed task,
\* or with CancelledError once both cancelled tasks have ended. Either way
\* "finally: await self.cleanup()" follows.
RunAfterGather ==
    /\ LoopYields
    /\ runPc = "gather"
    /\ \/ serveTask = "failed"
       \/ mainPc # "wait_signal" /\ TaskDone(loopTask) /\ TaskDone(serveTask)
    /\ runPc' = IF mainPc = "wait_signal" THEN "cleanup_exc" ELSE "cleanup_ok"
    /\ CleanupEnter("run")
    /\ UNCHANGED <<tickVars, pinVars, cfgVars, extVars, obsVars, frameVars, mainPc, srvVars>>

\* main() after "await control_task": a run() that ended with an error
\* makes main() skip its own cleanup and exit; otherwise main() calls
\* controller.cleanup() once more.
MainAfterRun ==
    /\ LoopYields
    /\ mainPc = "await_run"
    /\ runPc \in {"done", "failed", "cancelled"}
    /\ IF runPc = "failed"
       THEN mainPc' = "exited" /\ UNCHANGED <<loopTask, serveTask, cl>>
       ELSE mainPc' = "cleanup" /\ CleanupEnter("main")
    /\ UNCHANGED <<tickVars, pinVars, cfgVars, extVars, obsVars, frameVars, runPc, srvVars>>

\* cleanup(): the cancelled tasks have ended and the gather completes; a
\* run() cancelled while it waited here ends with that cancellation.
CleanupGathered ==
    /\ LoopYields
    /\ cl.pc = "gather"
    /\ TaskDone(loopTask) /\ TaskDone(serveTask)
    /\ IF runPc = "cleanup_cancelling"
       THEN CleanupReturn
       ELSE cl' = [cl EXCEPT !.pc = AfterGather] /\ UNCHANGED <<runPc, mainPc>>
    /\ UNCHANGED <<tickVars, pinVars, cfgVars, extVars, obsVars, frameVars, loopTask,
                   serveTask, srvVars>>

\* A stop() that leaves the socket file in place.
Stopped_keepsFile == [server |-> "none", sockFile |-> sockFile, current_image |-> "none"]

\* What stop() leaves behind once wait_closed() has returned:
\* _cleanup_socket unlinks the socket file (the file this process bound),
\* then server and current_image are set to None.
Stopped == [server |-> "none", sockFile |-> FALSE, current_image |-> "none"]

\* DisplaySocketServer.stop() under wait_for: with the lock held it closes
\* the server, awaits wait_closed(), unlinks the socket file and drops the
\* server and the frame; without a server ("if self.server:") it does
\* nothing. A stop() suspended in wait_closed keeps the lock.
CleanupStop ==
    /\ LoopYields
    /\ cl.pc \in {"stop", "stop_wait"}
    /\ IF cl.pc = "stop" /\ lock # "free"
       THEN /\ blocked' = TRUE
            /\ UNCHANGED <<cl, server, sockFile, lock, current_image>>
       ELSE /\ UNCHANGED blocked
            /\ IF cl.pc = "stop" /\ server = "none"
               THEN /\ cl' = [cl EXCEPT !.pc = "gpio"]
                    /\ UNCHANGED <<server, sockFile, lock, current_image>>
               ELSE IF cl.pc = "stop" /\ WaitClosedPending
                    THEN /\ cl' = [cl EXCEPT !.pc = "stop_wait"]
                         /\ server' = Closed(server)
                         /\ lock' = "stop"
                         /\ UNCHANGED <<sockFile, current_image>>
                    ELSE /\ ~WaitClosedPending
                         /\ cl' = [cl EXCEPT !.pc = "gpio"]
                         /\ server' = Stopped.server
                         /\ sockFile' = Stopped.sockFile
                         /\ current_image' = Stopped.current_image
                         /\ lock' = "free"
    /\ UNCHANGED <<tickVars, pinVars, cfgVars, extVars, obsVars, imageBuf, loopTask,
                   serveTask, runPc, mainPc, conns>>

\* GPIO.cleanup(), the last statement inside the timeout; cleanup returns.
CleanupGpio ==
    /\ LoopYields
    /\ cl.pc = "gpio"
    /\ lightPin' = FALSE
    /\ heatPin' = FALSE
    /\ gpioReleased' = TRUE
    /\ CleanupReturn
    /\ UNCHANGED <<tickVars, cfgVars, extVars, obsVars, frameVars, loopTask, serveTask,
                   srvVars>>

\* A timeout expires while cleanup() is suspended: the 2 s wait_for around
\* stop() is caught and cleanup goes on to GPIO.cleanup(); the overall
\* asyncio.timeout(10) is caught outside the block, so that what is left of
\* the cleanup is skipped. A timeout that expires in the gather takes
\* effect when the tasks it waits for have ended.
CleanupTimeout ==
    /\ LoopYields
    /\ cl.pc \in {"gather", "stop", "stop_wait"}
    /\ cl.pc = "gather" => TaskDone(loopTask) /\ TaskDone(serveTask)
    /\ \E which \in {"stop", "cleanup"} :
          /\ which = "stop" => cl.pc # "gather"
          /\ IF which = "stop"
             THEN /\ cl' = [cl EXCEPT !.pc = "gpio"]
                  /\ UNCHANGED <<runPc, mainPc>>
             ELSE CleanupReturn
    /\ lock' = IF lock = "stop" THEN "free" ELSE lock
    /\ UNCHANGED <<tickVars, pinVars, cfgVars, extVars, obsVars, frameVars, loopTask,
                   serveTask, server, sockFile, conns, blocked>>

(***************************************************************************)
(* The controller as a whole, with one temperature and one clock reading.  *)
(***************************************************************************)
SystemTemps == {135}
SystemTimes == {480}

Init == InitWith({<<450, 1170>>}, BOOLEAN)

TickNext ==
    \/ TickReadSensor(SystemTemps)
    \/ TickReadUV
    \/ TickControl(SystemTimes, {"none"}, "off")
    \/ TickRender
    \/ TickSendImage
    \/ TickSleep
    \/ TickPause

TaskNext ==
    \/ LoopCancelled
    \/ ServeTaskStep
    \/ RunAfterGather
    \/ MainAfterRun
    \/ CleanupGathered
    \/ CleanupStop
    \/ CleanupGpio

ClientNext ==
    \/ \E c \in Clients : HandleClient(c)
    \/ \E c \in Clients : HandlerClosed(c)

\* Steps of the environment: an unexpected error, a failing server task, a
\* connecting client, the shutdown signal, an expiring timeout.
EnvNext ==
    \/ TickUnexpectedError
    \/ ServeFails
    \/ \E c \in Clients : Connect(c)
    \/ Signal
    \/ CleanupTimeout

Next == TickNext \/ TaskNext \/ ClientNext \/ EnvNext

Spec == Init /\ [][Next]_vars

\* The event loop runs every coroutine that is ready: each step of the
\* program that stays possible is eventually taken.
FairSpec == Spec /\ WF_vars(TickNext) /\ WF_vars(TaskNext) /\ WF_vars(ClientNext)

(***************************************************************************)
(* Startup: main() constructs the controller, run() sets up the socket     *)
(* server and creates the tasks.                                           *)
(***************************************************************************)
\* The exit status of main() when an exception reaches its outer handler
\* with status code: "except Exception: sys.exit(code)" raises SystemExit,
\* and the "finally: sys.exit(0)" that runs next replaces it.
MainExitStatus(code) == 0

\* The state main() starts in: nothing is constructed; a socket file may
\* be left at socket_path by an earlier run.
InitStartup ==
    /\ mainPc = "start"
    /\ runPc = "not_started"
    /\ loopTask = "not_created"
    /\ serveTask = "absent"
    /\ cl = [by |-> "none", pc |-> "idle"]
    /\ display_socket = FALSE
    /\ server = "none"
    /\ sockFile \in BOOLEAN
    /\ lock = "free"
    /\ conns = [c \in Clients |-> "idle"]
    /\ blocked = FALSE
    /\ waitsForConns \in BOOLEAN
    /\ gpioReleased = FALSE
    /\ pc = "read_sensor"
    /\ temp = Absent
    /\ uv = "none"
    /\ light_status = FALSE
    /\ heat_status = FALSE
    /\ lightPin = FALSE
    /\ heatPin = FALSE
    /\ light_on_time = 450 /\ light_off_time = 1170
    /\ imageBuf = "blank"
    /\ current_image = "none"
    /\ tickTrace = <<>>
    /\ ctl = NoCtl
    /\ memo = NoMemo
    /\ scen = [k |-> 0, out |-> <<>>]
    /\ setupFault = "none"
    /\ startupExit = NoExit
    /\ instance = "none"
    /\ constructions = 0
    /\ InitBus({1})
    /\ InitSide
    /\ InitClient({"server"}, {MAX_RETRIES})
    /\ InitSettings
    /\ InitAcq({TRUE})

\* controller = GeckoController(): setup_gpio acquires the relay outputs
\* and drives them LOW, or raises; the exception reaches main's outer
\* handler. Then main creates the run() task and waits for the signal.
MainConstruct ==
    /\ mainPc = "start"
    /\ \E gpioOk \in BOOLEAN :
          IF gpioOk
          THEN /\ mainPc' = "wait_signal"
               /\ runPc' = "setup_socket"
               /\ UNCHANGED <<setupFault, startupExit>>
          ELSE /\ mainPc' = "exited"
               /\ setupFault' = "gpio"
               /\ startupExit' = MainExitStatus(1)
               /\ UNCHANGED runPc
    /\ UNCHANGED <<tickVars, pinVars, cfgVars, obsVars, frameVars, loopTask,
                   serveTask, cl, srvVars, instance, constructions, busVars, logVars,
                   moreVars>>

\* DisplaySocketServer(config) with an __init__ that initializes every time.
Constructed_noInitGuard(dirOk, unlinkOk) ==
    IF ~dirOk
    THEN [instance |-> IF instance = "none" THEN "created" ELSE instance,
          sockFile |-> sockFile, server |-> server,
          current_image |-> current_image, raised |-> TRUE]
    ELSE [instance |-> "initialized",
          sockFile |-> IF unlinkOk THEN FALSE ELSE sockFile,
          server |-> "none", current_image |-> "none", raised |-> FALSE]

\* What DisplaySocketServer(config) does to the server's state: __new__
\* creates the instance once; __init__ returns at once when the instance is
\* _initialized, else it creates the socket directory (raising on failure),
\* unlinks a socket file found at socket_path (a failure to unlink is only
\* logged) and resets server and current_image.
Constructed(dirOk, unlinkOk) ==
    IF instance = "initialized"
    THEN [instance |-> instance, sockFile |-> sockFile, server |-> server,
          current_image |-> current_image, raised |-> FALSE]
    ELSE IF ~dirOk
         THEN [instance |-> "created", sockFile |-> sockFile, server |-> server,
               current_image |-> current_image, raised |-> TRUE]
         ELSE [instance |-> "initialized",
               sockFile |-> IF unlinkOk THEN FALSE ELSE sockFile,
               server |-> "none", current_image |-> "none", raised |-> FALSE]

\* setup_socket, first half: self.display_socket = DisplaySocketServer().
\* An exception is caught by setup_socket, which logs it, leaves
\* self.display_socket None and returns False.
SocketConstruct ==
    /\ runPc = "setup_socket"
    /\ \E dirOk \in BOOLEAN, unlinkOk \in BOOLEAN :
          LET r == Constructed(dirOk, unlinkOk)
          IN  /\ instance' = r.instance
              /\ sockFile' = r.sockFile
              /\ server' = r.server
              /\ current_image' = r.current_image
              /\ display_socket' = ~r.raised
              /\ setupFault' = IF r.raised THEN "socket" ELSE setupFault
              /\ runPc' = IF r.raised THEN "create_tasks" ELSE "socket_start"
    /\ constructions' = constructions + 1
    /\ UNCHANGED <<tickVars, pinVars, light_on_time, light_off_time, waitsForConns,
                   obsVars, imageBuf, loopTask, serveTask, mainPc, cl, lock, conns,
                   blocked, startupExit, busVars, logVars,
                   moreVars>>

\* Another call site constructs DisplaySocketServer() while the process
\* runs; an exception goes to that caller.
ConstructAgain ==
    /\ LoopYields
    /\ instance # "none"
    /\ constructions < MaxConstructions
    /\ constructions' = constructions + 1
    /\ \E dirOk \in BOOLEAN, unlinkOk \in BOOLEAN :
          LET r == Constructed(dirOk, unlinkOk)
          IN  /\ instance' = r.instance
              /\ sockFile' = r.sockFile
              /\ server' = r.server
              /\ current_image' = r.current_image
    /\ UNCHANGED <<tickVars, pinVars, cfgVars, setupFault, startupExit, busVars,
                   logVars, moreVars, obsVars, imageBuf, taskVars, lock, conns, blocked>>

\* setup_socket, second half: await self.display_socket.start() binds the
\* listener at socket_path, which fails when a file is still there (or for
\* another reason); start() raises again, setup_socket catches, sets
\* self.display_socket = None and returns False.
SocketStart ==
    /\ runPc = "socket_start"
    /\ \E bindOk \in BOOLEAN :
          IF bindOk /\ ~sockFile
          THEN /\ server' = "open"
               /\ sockFile' = TRUE
               /\ UNCHANGED <<display_socket, setupFault>>
          ELSE /\ display_socket' = FALSE
               /\ setupFault' = "socket"
               /\ UNCHANGED <<server, sockFile>>
    /\ runPc' = "create_tasks"
    /\ UNCHANGED <<tickVars, pinVars, light_on_time, light_off_time, waitsForConns,
                   obsVars, frameVars, loopTask, serveTask, mainPc, cl, lock, conns,
                   blocked, startupExit, instance, constructions, busVars, logVars,
                   moreVars>>

\* run() creates the tasks, with socket_server only when setup_socket
\* returned True, and awaits them.
RunCreateTasks ==
    /\ runPc = "create_tasks"
    /\ loopTask' = "running"
    /\ serveTask' = (IF display_socket THEN "running" ELSE "absent")
    /\ runPc' = "gather"
    /\ UNCHANGED <<tickVars, pinVars, cfgVars, extVars, obsVars, frameVars, mainPc,
                   cl, srvVars>>

StartupNext ==
    \/ MainConstruct
    \/ SocketConstruct
    \/ SocketStart
    \/ RunCreateTasks
    \/ ConstructAgain

StartupTemps == {135, 295}

NextStartup ==
    \/ StartupNext
    \/ TickReadSensor(StartupTemps)
    \/ TickReadUV
    \/ TickControl(SystemTimes, {"none"}, "off")
    \/ TickRender
    \/ TickSendImage
    \/ TickSleep
    \/ \E c \in Clients : Connect(c)
    \/ \E c \in Clients : HandleClient(c)
    \/ \E c \in Clients : HandlerClosed(c)

SpecStartup == InitStartup /\ [][NextStartup]_vars

(***************************************************************************)
(* The bus access wrapper on its own, beside an idle controller.           *)
(***************************************************************************)
InitBusAccess ==
    /\ mainPc = "start"
    /\ runPc = "not_started"
    /\ loopTask = "not_created"
    /\ serveTask = "absent"
    /\ cl = [by |-> "none", pc |-> "idle"]
    /\ display_socket = FALSE
    /\ server = "none"
    /\ sockFile = FALSE
    /\ lock = "free"
    /\ conns = [c \in Clients |-> "idle"]
    /\ blocked = FALSE
    /\ waitsForConns = FALSE
    /\ gpioReleased = FALSE
    /\ pc = "read_sensor"
    /\ temp = Absent
    /\ uv = "none"
    /\ light_status = FALSE
    /\ heat_status = FALSE
    /\ lightPin = FALSE
    /\ heatPin = FALSE
    /\ light_on_time = 450 /\ light_off_time = 1170
    /\ imageBuf = "blank"
    /\ current_image = "none"
    /\ tickTrace = <<>>
    /\ ctl = NoCtl
    /\ memo = NoMemo
    /\ scen = [k |-> 0, out |-> <<>>]
    /\ setupFault = "none"
    /\ startupExit = NoExit
    /\ instance = "none"
    /\ constructions = 0
    /\ InitBus(1..MaxErrors)
    /\ InitSide
    /\ InitClient({"server"}, {MAX_RETRIES})
    /\ InitSettings
    /\ InitAcq({TRUE})

NextBusAccess == BusCall \/ BusAttempt \/ ClockAdvance

SpecBusAccess == InitBusAccess /\ [][NextBusAccess]_vars

(***************************************************************************)
(* Frame distribution: send_image on the server, the handler's response    *)
(* and DisplaySocketClient.get_image, split at its suspension points.      *)
(***************************************************************************)
\* _compress_image: image.save(buffer, format='JPEG'). The JPEG keeps the
\* pixel dimensions and stores a mode "1" image as "L".
Compress(f) == [f EXCEPT !.mode = IF f.mode = "1" THEN "L" ELSE f.mode]

\* json.dumps(response).encode(): the length of the body in bytes. The
\* error body is {"status": "error", "message": "No image available"}; a
\* success body carries the base64 text of the image and its metadata.
BodyLen(status, image) ==
    IF status = "error" THEN 51 ELSE 4 * ((image.bytes + 2) \div 3) + 96

\* writer.write(len(msg).to_bytes(4, byteorder='big')); writer.write(msg).
Framed(status, image) ==
    [len |-> BodyLen(status, image), status |-> status, image |-> image]

\* reader.read(4) returning b'': the peer closed without writing.
Eof == [len |-> 0, status |-> "eof", image |-> NoImage]

\* A body that json.loads or the envelope lookups reject.
Garbage == [len |-> 7, status |-> "garbage", image |-> NoImage]

\* What _handle_client writes before it closes the connection: the error
\* envelope without a frame; with a frame the image envelope if the await
\* of _compress_image delivered the bytes, and nothing when it raised.
Served(img, f) ==
    IF img = "none" THEN Framed("error", NoImage)
    ELSE IF CompressAwaitSuspends THEN Framed("success", Compress(f))
    ELSE Eof

\* What a peer other than this server can send: nothing, an error
\* envelope, a body that does not parse, and image envelopes whose image
\* is sound, is too large, or does not verify.
Payloads ==
    {Eof, Garbage, Framed("error", NoImage)}
    \cup {Framed("success", Compress(f)) : f \in Frames}
    \cup {Framed("success", [dims |-> <<128, 64>>, mode |-> "L", bytes |-> 2048,
                             valid |-> FALSE])}

Receivable == IF peer = "server" THEN {Served(current_image, frame)} ELSE Payloads

\* asyncio.open_unix_connection under wait_for: FileNotFoundError without
\* a socket file, ConnectionRefusedError when nothing listens on it,
\* otherwise a connection, or TimeoutError after config.timeout.
ConnectOutcomes ==
    IF ~sockFile THEN {"FileNotFoundError"}
    ELSE IF server # "open" THEN {"ConnectionRefusedError"}
    ELSE {"connected", "TimeoutError"}

\* _validate_image: ValueError for more than max_size bytes and for data
\* that Image.verify() rejects.
validate_image(image) == image.bytes <= MAX_SIZE /\ image.valid

\* The client's event loop runs a caller's step.
ClientRuns(k) == ~clientBlocked /\ gi[k].pc # "idle"

\* DisplaySocketServer.send_image(image): under the lock the server keeps
\* a reference to the image it is given, whatever its size.
SendImage(f) ==
    /\ ~blocked
    /\ lock = "free"
    /\ current_image' = "image"
    /\ frame' = f
    /\ UNCHANGED <<tickVars, pinVars, cfgVars, bootVars, busVars, logVars, acqVars, parseVars, sideVars,
                   obsVars,
                   imageBuf, taskVars, srvVars,
                   peer, max_retries, gi, clientLock, clientBlocked>>

\* A caller awaits client.get_image(): last_error = None, "while True".
GetImageCall(k) ==
    /\ ~clientBlocked
    /\ gi[k].pc = "idle"
    /\ gi' = [gi EXCEPT ![k] = [IdleCall EXCEPT !.pc = "top"]]
    /\ UNCHANGED <<tickVars, pinVars, cfgVars, bootVars, busVars, logVars, acqVars, parseVars, sideVars,
                   obsVars,
                   frameVars, taskVars, srvVars,
                   frame, peer, max_retries, clientLock, clientBlocked>>

\* Top of the loop: "with self._lock" is a blocking acquire of the
\* threading lock all callers share, then the connection is awaited with
\* the lock held.
ClientAttempt(k) ==
    /\ ClientRuns(k)
    /\ gi[k].pc = "top"
    /\ gi[k].attempts < MaxClientAttempts
    /\ IF clientLock # 0
       THEN clientBlocked' = TRUE /\ UNCHANGED <<gi, clientLock>>
       ELSE /\ clientLock' = k
            /\ gi' = [gi EXCEPT ![k].pc = "connecting",
                                ![k].attempts = @ + 1,
                                ![k].last_error = "none"]
            /\ UNCHANGED clientBlocked
    /\ UNCHANGED <<tickVars, pinVars, cfgVars, bootVars, busVars, logVars, acqVars, parseVars, sideVars,
                   obsVars,
                   frameVars, taskVars, srvVars, frame, peer, max_retries>>

\* The connection attempt ends. TimeoutError and ConnectionRefusedError
\* are caught inside the lock (line 256) and followed by a sleep with the
\* lock held; any other error leaves the "with" and is caught at line
\* 261. Once connected, the peer's answer is what the reads will return.
ClientConnected(k) ==
    /\ ClientRuns(k)
    /\ gi[k].pc = "connecting"
    /\ \E o \in ConnectOutcomes :
         IF o = "connected"
         THEN /\ \E w \in Receivable :
                   gi' = [gi EXCEPT ![k].pc = "reading", ![k].wire = w]
              /\ UNCHANGED clientLock
         ELSE IF o \in {"TimeoutError", "ConnectionRefusedError"}
              THEN /\ gi' = [gi EXCEPT ![k].pc = "sleep_locked", ![k].last_error = o]
                   /\ UNCHANGED clientLock
              ELSE /\ gi' = [gi EXCEPT ![k].pc = "sleep", ![k].last_error = o]
                   /\ clientLock' = 0
    /\ UNCHANGED <<tickVars, pinVars, cfgVars, bootVars, busVars, logVars, acqVars, parseVars, sideVars,
                   obsVars,
                   frameVars, taskVars, srvVars, frame, peer, max_retries, clientBlocked>>

\* How the stream delivers an answer to the two reads: each read at once,
\* or fewer than 4 bytes to read(4), or less than the body to
\* read(msg_length). StreamReader.read(n) returns what has arrived, up to n.
Chunks == {"whole", "short_prefix", "short_body"}

\* reader.read(4), reader.read(msg_length) and what follows. Whatever the
\* reads returned is decoded and given to json.loads (parsed records
\* whether that was the full body); a short read makes it fail. Only an
\* image that passes _validate_image is returned; every other outcome
\* sleeps and goes round the loop again.
ClientRead(k, chunk) ==
    /\ ClientRuns(k)
    /\ gi[k].pc = "reading"
    /\ LET w == gi[k].wire IN
       IF w.status = "eof"
       THEN /\ gi' = [gi EXCEPT ![k].pc = "sleep_locked"]
            /\ UNCHANGED clientLock
       ELSE IF chunk # "whole" \/ w.status = "garbage"
       THEN /\ gi' = [gi EXCEPT ![k].pc = "sleep", ![k].last_error = "JSONDecodeError",
                                ![k].parsed = IF chunk = "whole" THEN "full"
                                              ELSE "partial"]
            /\ clientLock' = 0
       ELSE IF w.status # "success"
       THEN /\ gi' = [gi EXCEPT ![k].pc = "sleep_locked",
                                ![k].last_error = "Unknown error",
                                ![k].parsed = "full"]
            /\ UNCHANGED clientLock
       ELSE IF ~validate_image(w.image)
       THEN /\ gi' = [gi EXCEPT ![k].pc = "sleep", ![k].last_error = "ValueError",
                                ![k].parsed = "full"]
            /\ clientLock' = 0
       ELSE /\ gi' = [gi EXCEPT ![k].pc = "returned", ![k].parsed = "full",
                                ![k].result = [ok |-> TRUE, image |-> w.image,
                                               error |-> "none"]]
            /\ clientLock' = 0
    /\ UNCHANGED <<tickVars, pinVars, cfgVars, bootVars, busVars, logVars, acqVars, parseVars, sideVars,
                   obsVars,
                   frameVars, taskVars, srvVars, frame, peer, max_retries, clientBlocked>>

\* asyncio.sleep(retry_delay) ends and "continue" leaves the "with" (for
\* the sleeps inside it) and runs "finally", which closes the writer.
ClientSleepDone(k) ==
    /\ ClientRuns(k)
    /\ gi[k].pc \in {"sleep_locked", "sleep"}
    /\ gi' = [gi EXCEPT ![k].pc = "top"]
    /\ clientLock' = IF gi[k].pc = "sleep_locked" THEN 0 ELSE clientLock
    /\ UNCHANGED <<tickVars, pinVars, cfgVars, bootVars, busVars, logVars, acqVars, parseVars, sideVars,
                   obsVars,
                   frameVars, taskVars, srvVars, frame, peer, max_retries, clientBlocked>>

\* The server process runs with a started server, or is down with or
\* without a socket file left behind; the client is configured with
\* max_retries and talks to this server or to another peer.
InitClientSpec ==
    /\ loopTask = "running"
    /\ runPc = "gather"
    /\ mainPc = "wait_signal"
    /\ cl = [by |-> "none", pc |-> "idle"]
    /\ \E st \in {"started", "stale", "absent"} :
         /\ display_socket = (st = "started")
         /\ server = (IF st = "started" THEN "open" ELSE "none")
         /\ sockFile = (st # "absent")
    /\ serveTask = (IF display_socket THEN "running" ELSE "absent")
    /\ lock = "free"
    /\ conns = [c \in Clients |-> "idle"]
    /\ blocked = FALSE
    /\ waitsForConns = FALSE
    /\ gpioReleased = FALSE
    /\ pc = "read_sensor"
    /\ temp = Absent
    /\ uv = "none"
    /\ light_status = FALSE
    /\ heat_status = FALSE
    /\ lightPin = FALSE
    /\ heatPin = FALSE
    /\ light_on_time = 450 /\ light_off_time = 1170
    /\ imageBuf = "blank"
    /\ current_image = "none"
    /\ tickTrace = <<>>
    /\ ctl = NoCtl
    /\ memo = NoMemo
    /\ scen = [k |-> 0, out |-> <<>>]
    /\ setupFault = "none"
    /\ startupExit = NoExit
    /\ instance = (IF display_socket THEN "initialized" ELSE "none")
    /\ constructions = (IF display_socket THEN 1 ELSE 0)
    /\ InitBus({1})
    /\ InitSide
    /\ InitClient({"server", "other"}, 1..MaxRetries)
    /\ InitSettings
    /\ InitAcq({TRUE})

NextClient ==
    \/ \E f \in Frames : server = "open" /\ SendImage(f)
    \/ \E k \in Callers : GetImageCall(k)
    \/ \E k \in Callers : ClientAttempt(k)
    \/ \E k \in Callers : ClientConnected(k)
    \/ \E k \in Callers : \E chunk \in Chunks : ClientRead(k, chunk)
    \/ \E k \in Callers : ClientSleepDone(k)

SpecClient == InitClientSpec /\ [][NextClient]_vars

(***************************************************************************)
(* Acquisition in detail: read_sensor with every pattern of bus failures   *)
(* and read_uv attempt by attempt, followed by the rest of the tick.       *)
(***************************************************************************)
\* Raw 16-bit codes of the SHT31: temperature codes below, on the edges of
\* and above the accepted range, and humidity codes.
RawTemps == {0, 1873, 27000, 63663}
RawHums == {32768, 65535}

\* Raw (uva, uvb, uvc) async_get_values can deliver: usual values, one
\* channel out of range, and one channel without a value beside one whose
\* corrected value is too high.
RawUVs == {<<500, 500, 500>>, <<500, 2000000, 500>>, <<40000, 500, Absent>>}

\* cTemp = -45 + (175 * temp / 65535.0), in tenths of a degree.
CTemp(raw) == -450 + (1750 * raw) \div 65535

\* humidity = 100 * raw / 65535.0, in tenths of a percent.
Hum(raw) == (1000 * raw) \div 65535

\* -40 <= cTemp <= 125 and 0 <= humidity <= 100, on the raw codes.
TempInRange(raw) == 5 * 65535 <= 175 * raw /\ 175 * raw <= 170 * 65535
HumInRange(raw) == 0 <= raw /\ raw <= 65535

\* A read_sensor whose handlers catch OSError only.
SensorCaught_onlyOSError(e) == e = "OSError"

\* The exceptions read_sensor's handlers catch: OSError at line 539, every
\* Exception at line 550.
SensorCaught(e) == e \in {"OSError", "TypeError"}

\* read_sensor. busThere: self.bus is set; w: how the measurement command
\* ended; rs: how the three read attempts would end; rawT, rawH: the codes
\* a successful read delivers. A read is repeated after OSError and the
\* third OSError is raised again; any other exception leaves the loop.
\* reset: the handler at line 539 ran, which closes and reopens the bus;
\* trail: the bus calls that raised after the last one that succeeded;
\* anyOk: a bus call succeeded.
read_sensor(busThere, w, rs, rawT, rawH) ==
    LET readEnd == IF rs[1] # "OSError" THEN rs[1]
                   ELSE IF rs[2] # "OSError" THEN rs[2] ELSE rs[3]
        raisedE == IF ~busThere THEN "none"
                   ELSE IF w # "ok" THEN w
                   ELSE IF readEnd # "ok" THEN readEnd ELSE "none"
        data == busThere /\ w = "ok" /\ readEnd = "ok"
        readCalls == IF rs[1] # "OSError" THEN 1
                     ELSE IF rs[2] # "OSError" THEN 2 ELSE 3
        trail == IF ~busThere THEN 0
                 ELSE IF w # "ok" THEN 1
                 ELSE IF readEnd = "ok" THEN 0 ELSE readCalls
        more == [reset |-> raisedE = "OSError", trail |-> trail,
                 anyOk |-> busThere /\ w = "ok"]
    IN  IF data /\ TempInRange(rawT) /\ HumInRange(rawH)
        THEN [temp |-> CTemp(rawT), humidity |-> Hum(rawH), escaped |-> FALSE,
              data |-> TRUE] @@ more
        ELSE [temp |-> Absent, humidity |-> Absent,
              escaped |-> raisedE # "none" /\ ~SensorCaught(raisedE),
              data |-> data] @@ more

\* How the reset at lines 542-547 leaves self.bus: reopened, or still the
\* closed handle when smbus2.SMBus(1) raised.
ResetOutcomes == {"open", "closed"}

\* The inputs of one read_sensor, each pattern of bus calls taken once: a
\* call that is not made has no outcome to choose (written "ok"), and no
\* codes are chosen when no read delivers data.
Made(busThere, w, rs, rawT, rawH) ==
    /\ ~busThere => w = "ok"
    /\ w # "ok" => rs[1] = "ok"
    /\ \A i \in 2..RETRIES : rs[i - 1] # "OSError" => rs[i] = "ok"
    /\ ~(busThere /\ w = "ok" /\ rs[1] = "ok")
          /\ ~(busThere /\ w = "ok" /\ rs[1] = "OSError" /\ rs[2] = "ok")
          /\ ~(busThere /\ w = "ok" /\ rs[1] = "OSError" /\ rs[2] = "OSError"
                 /\ rs[3] = "ok")
          => rawT = 0 /\ rawH = 32768

\* temp, humidity = self.read_sensor() in control_loop; an exception that
\* left read_sensor would be caught at line 729. Every bus call on a closed
\* handle raises TypeError.
AcquireSensor ==
    /\ LoopRuns
    /\ pc = "read_sensor"
    /\ \E busThere \in BOOLEAN, w \in PrimitiveOutcomes,
          rs \in [1..RETRIES -> PrimitiveOutcomes],
          rawT \in RawTemps, rawH \in RawHums :
          LET r == read_sensor(busThere, w, rs, rawT, rawH) IN
          /\ Made(busThere, w, rs, rawT, rawH)
          /\ busHandle = "closed" /\ busThere => w = "TypeError"
          /\ temp' = r.temp
          /\ humidity' = r.humidity
          /\ escaped' = r.escaped
          /\ acq' = IF r.data
                    THEN [NoAcq EXCEPT !.sensor = "data", !.rawT = rawT, !.rawH = rawH]
                    ELSE [NoAcq EXCEPT !.sensor = "fault", !.reset = r.reset]
          /\ busHandle' \in (IF r.reset THEN ResetOutcomes ELSE {busHandle})
          /\ faultRun' = LET n == IF r.anyOk THEN r.trail ELSE faultRun + r.trail
                         IN  IF n > MaxFaultRun THEN MaxFaultRun ELSE n
    /\ uv' = "none"
    /\ uvs' = NoUV
    /\ tickTrace' = <<"read_sensor">>
    /\ pc' = After("read_sensor")
    /\ UNCHANGED <<light_status, heat_status, pinVars, cfgVars, bootVars, busVars, logVars,
                   cliVars, parseVars, sideVars, uv_sensor, uvAttempt, uvLastError, obsVars,
                   frameVars,
                   taskVars, srvVars>>

\* "if any(v is not None and (v < 0 or v > 1000000) ...)": a raw reading
\* read_uv accepts.
RawAccepted(raw) ==
    \A i \in 1..3 : raw[i] = Absent \/ (0 <= raw[i] /\ raw[i] <= UV_RAW_MAX)

\* round(value * self.uv_correction_factor, 3), in thousandths, dropped
\* when it exceeds 100000.
Corrected(v) ==
    IF v = Absent THEN Absent
    ELSE IF v * UV_CORRECTION > UV_CORRECTED_MAX * 1000 THEN Absent
    ELSE v * UV_CORRECTION

\* One attempt of read_uv. o: how async_get_values under the timeout
\* ended, raw: the values it delivered. Accepted values are corrected and
\* returned; otherwise the loop continues, and after the last attempt
\* read_uv reinitialises the sensor if an error was noted and returns
\* (None, None, None). Without a sensor it returns that at once.
UVAttempt(o, raw) ==
    /\ LoopRuns
    /\ pc = "read_uv"
    /\ LET done == ~uv_sensor \/ (o = "values" /\ RawAccepted(raw))
                   \/ uvAttempt = RETRIES - 1
           noted == uvLastError \/ o # "values"
           res == IF uv_sensor /\ o = "values" /\ RawAccepted(raw)
                  THEN [i \in 1..3 |-> Corrected(raw[i])]
                  ELSE NoUV
       IN  /\ acq' = IF uv_sensor THEN [acq EXCEPT !.uv = o, !.rawUV = raw]
                     ELSE [acq EXCEPT !.uv = "no sensor"]
           /\ IF done
              THEN /\ uvs' = res
                   /\ uv' = IF res = NoUV THEN "absent" ELSE "values"
                   /\ uvAttempt' = 0
                   /\ uvLastError' = FALSE
                   /\ uv_sensor' \in (IF uv_sensor /\ res = NoUV /\ noted
                                       THEN BOOLEAN ELSE {uv_sensor})
                   /\ tickTrace' = Append(tickTrace, "read_uv")
                   /\ pc' = After("read_uv")
              ELSE /\ uvAttempt' = uvAttempt + 1
                   /\ uvLastError' = noted
                   /\ UNCHANGED <<uvs, uv, uv_sensor, tickTrace, pc>>
    /\ UNCHANGED <<temp, humidity, escaped, busHandle, faultRun, light_status,
                   heat_status, pinVars, cfgVars,
                   bootVars, busVars, logVars, cliVars, parseVars, sideVars, obsVars, frameVars,
                   taskVars, srvVars>>

InitAcquisition == InitWithSensor({<<450, 1170>>}, {FALSE}, BOOLEAN)

NextAcquisition ==
    \/ AcquireSensor
    \/ \E o \in {"values", "TimeoutError", "OSError"} :
         \E raw \in RawUVs : UVAttempt(o, raw)
    \/ TickControl(SystemTimes, {"none"}, "off")
    \/ TickRender
    \/ TickSendImage
    \/ TickSleep

SpecAcquisition == InitAcquisition /\ [][NextAcquisition]_vars

(***************************************************************************)
(* GeckoController.__init__ parsing the two time settings.                 *)
(***************************************************************************)
\* Settings considered: hour and minute inside, on the edges of and beyond
\* their ranges, hour-only strings, text, a negative hour, three fields.
SettingSamples ==
    {<<Num(h), Num(m)>> : h \in {0, 9, 23, 24}, m \in {0, 59, 60}}
    \cup {<<Num(h)>> : h \in {9, 23, 25}}
    \cup {<<Wide, Num(0)>>, <<Num(14), Wide>>, <<Wide>>}
    \cup {<<Text>>, <<Num(14), Text>>, <<Num(-1), Num(30)>>,
          <<Num(1), Num(2), Num(3)>>}

\* datetime_time(hours, minutes): OverflowError for an argument that does
\* not fit a C int, ValueError outside 0..23 and 0..59, else the time of
\* day.
datetime_time(hours, minutes) ==
    IF hours.wide \/ minutes.wide
    THEN [exc |-> "OverflowError", minutes |-> 0]
    ELSE IF hours.val \notin 0..23 \/ minutes.val \notin 0..59
    THEN [exc |-> "ValueError", minutes |-> 0]
    ELSE [exc |-> "none", minutes |-> 60 * hours.val + minutes.val]

\* parse_time_setting(time_str) on the fields of time_str: with a colon the
\* fields must be two numbers, without one the string must be a number;
\* ValueError and TypeError give midnight, any other exception is raised.
parse_time_setting(fs) ==
    LET t == IF Len(fs) > 2 \/ \E i \in 1..Len(fs) : ~fs[i].num
             THEN [exc |-> "ValueError", minutes |-> 0]
             ELSE IF Len(fs) = 2 THEN datetime_time(fs[1], fs[2])
             ELSE datetime_time(fs[1], Num(0))
    IN  IF t.exc \in {"ValueError", "TypeError"}
        THEN [raised |-> FALSE, minutes |-> 0]
        ELSE [raised |-> t.exc # "none", minutes |-> t.minutes]

\* Before the constructor: any two settings, no times parsed yet.
InitParse ==
    /\ mainPc = "start"
    /\ runPc = "not_started"
    /\ loopTask = "not_created"
    /\ serveTask = "absent"
    /\ cl = [by |-> "none", pc |-> "idle"]
    /\ display_socket = FALSE
    /\ server = "none"
    /\ sockFile = FALSE
    /\ lock = "free"
    /\ conns = [c \in Clients |-> "idle"]
    /\ blocked = FALSE
    /\ waitsForConns = FALSE
    /\ gpioReleased = FALSE
    /\ pc = "read_sensor"
    /\ temp = Absent
    /\ uv = "none"
    /\ light_status = FALSE
    /\ heat_status = FALSE
    /\ lightPin = FALSE
    /\ heatPin = FALSE
    /\ light_on_time = 0 /\ light_off_time = 0
    /\ imageBuf = "blank"
    /\ current_image = "none"
    /\ tickTrace = <<>>
    /\ ctl = NoCtl
    /\ memo = NoMemo
    /\ scen = [k |-> 0, out |-> <<>>]
    /\ setupFault = "none"
    /\ startupExit = NoExit
    /\ instance = "none"
    /\ constructions = 0
    /\ InitBus({1})
    /\ InitSide
    /\ InitClient({"server"}, {MAX_RETRIES})
    /\ InitAcq({TRUE})
    /\ settings \in SettingSamples \X SettingSamples
    /\ parsePc = "start"

\* self.light_on_time = self.parse_time_setting(self.config.LIGHT_ON_TIME)
\* and the same for the off-time; an exception leaves the constructor.
ParseSettings ==
    /\ parsePc = "start"
    /\ LET on == parse_time_setting(settings[1])
           off == parse_time_setting(settings[2])
       IN  IF on.raised
           THEN parsePc' = "raised" /\ UNCHANGED <<light_on_time, light_off_time>>
           ELSE IF off.raised
           THEN /\ parsePc' = "raised"
                /\ light_on_time' = on.minutes
                /\ UNCHANGED light_off_time
           ELSE /\ parsePc' = "done"
                /\ light_on_time' = on.minutes
                /\ light_off_time' = off.minutes
    /\ UNCHANGED <<tickVars, pinVars, display_socket, waitsForConns, bootVars, busVars,
                   logVars, cliVars, acqVars, sideVars, settings, obsVars, frameVars,
                   taskVars, srvVars>>

NextParse == ParseSettings

SpecParse == InitParse /\ [][NextParse]_vars

(***************************************************************************)
(* The delays inside read_sensor. control_loop calls read_sensor without   *)
(* await and read_sensor waits with time.sleep(0.1): after the measurement *)
(* command, between two read attempts and between closing and reopening    *)
(* the bus. The event loop's thread is inside time.sleep meanwhile, so no  *)
(* step of the program is taken until the delay is over.                   *)
(***************************************************************************)
SensorDelays == {"settle", "read_retry", "bus_reset"}

SensorDelay(kind) ==
    /\ LoopRuns
    /\ pc = "read_sensor"
    /\ delay_in = "none"
    /\ delay_in' = kind
    /\ UNCHANGED <<tickVars, pinVars, cfgVars, bootVars, busVars, logVars, cliVars,
                   acqVars, parseVars, dispVars, csvVars, wdVars, webVars, obsVars, frameVars,
                   taskVars, srvVars>>

SensorDelayOver ==
    /\ delay_in # "none"
    /\ delay_in' = "none"
    /\ UNCHANGED <<tickVars, pinVars, cfgVars, bootVars, busVars, logVars, cliVars,
                   acqVars, parseVars, dispVars, csvVars, wdVars, webVars, obsVars, frameVars,
                   taskVars, srvVars>>

\* The tick is waiting: in a delay of read_sensor or in one of
\* control_loop's own sleeps.
InDelay == delay_in # "none" \/ (LoopRuns /\ pc \in {"sleep", "pause"})

NextDelays ==
    \/ delay_in = "none" /\ Next
    \/ \E kind \in SensorDelays : SensorDelay(kind)
    \/ SensorDelayOver

SpecDelays == Init /\ [][NextDelays]_vars

(***************************************************************************)
(* The systemd watchdog wrapper (gecko-controller-watchdog.py): the main   *)
(* thread starts the watchdog thread, then launches the controller as a    *)
(* child process and forwards its output; the watchdog thread pings        *)
(* systemd while the child is alive.                                       *)
(***************************************************************************)
\* GeckoControllerWatchdog(): the environment is read.
WdConstruct ==
    /\ wdMain = "new"
    /\ watchdog_interval' \in BOOLEAN
    /\ notify_socket' \in BOOLEAN
    /\ wdMain' = "start_thread"
    /\ UNCHANGED <<running, controller_process, wdThread, pings, wdOut>>
    /\ UNCHANGED <<tickVars, pinVars, cfgVars, bootVars, busVars, logVars, cliVars,
                   acqVars, parseVars, dispVars, csvVars, delayVars, webVars, obsVars,
                   frameVars, taskVars, srvVars>>

\* run() up to watchdog_thread.start().
WdStartThread ==
    /\ wdMain = "start_thread"
    /\ wdThread' = IF watchdog_interval THEN "checking" ELSE "not_started"
    /\ wdMain' = "popen"
    /\ UNCHANGED <<watchdog_interval, notify_socket, running, controller_process,
                   pings, wdOut>>
    /\ UNCHANGED <<tickVars, pinVars, cfgVars, bootVars, busVars, logVars, cliVars,
                   acqVars, parseVars, dispVars, csvVars, delayVars, webVars, obsVars,
                   frameVars, taskVars, srvVars>>

\* run(): os.chdir and subprocess.Popen. When one of them raises the
\* wrapper exits, and the daemon thread with it.
WdPopen(ok) ==
    /\ wdMain = "popen"
    /\ IF ok
       THEN /\ controller_process' = "alive"
            /\ wdMain' = "streaming"
            /\ UNCHANGED wdThread
       ELSE /\ wdMain' = "exited"
            /\ wdThread' = (IF wdThread = "not_started" THEN wdThread ELSE "ended")
            /\ UNCHANGED controller_process
    /\ UNCHANGED <<watchdog_interval, notify_socket, running, pings, wdOut>>
    /\ UNCHANGED <<tickVars, pinVars, cfgVars, bootVars, busVars, logVars, cliVars,
                   acqVars, parseVars, dispVars, csvVars, delayVars, webVars, obsVars,
                   frameVars, taskVars, srvVars>>

\* One iteration of watchdog_ping up to time.sleep: with running set and a
\* child that is there and has not exited it sends WATCHDOG=1 (when
\* NOTIFY_SOCKET is set) and sleeps; otherwise the loop ends.
WdCheck ==
    /\ wdThread = "checking"
    /\ wdMain # "exited"
    /\ IF running /\ controller_process = "alive"
       THEN /\ wdThread' = "sleeping"
            /\ pings' = IF notify_socket /\ pings < MaxPings THEN pings + 1
                        ELSE pings
       ELSE wdThread' = "ended" /\ UNCHANGED pings
    /\ UNCHANGED <<watchdog_interval, notify_socket, running, controller_process,
                   wdMain, wdOut>>
    /\ UNCHANGED <<tickVars, pinVars, cfgVars, bootVars, busVars, logVars, cliVars,
                   acqVars, parseVars, dispVars, csvVars, delayVars, webVars, obsVars,
                   frameVars, taskVars, srvVars>>

\* time.sleep(self.watchdog_interval) is over.
WdSleepDone ==
    /\ wdThread = "sleeping"
    /\ wdMain # "exited"
    /\ wdThread' = "checking"
    /\ UNCHANGED <<watchdog_interval, notify_socket, running, controller_process,
                   wdMain, pings, wdOut>>
    /\ UNCHANGED <<tickVars, pinVars, cfgVars, bootVars, busVars, logVars, cliVars,
                   acqVars, parseVars, dispVars, csvVars, delayVars, webVars, obsVars,
                   frameVars, taskVars, srvVars>>

\* The child writes a line, which run() prints.
WdChildOutput ==
    /\ wdMain = "streaming"
    /\ controller_process = "alive"
    /\ wdOut < MaxLines
    /\ wdOut' = wdOut + 1
    /\ UNCHANGED <<watchdog_interval, notify_socket, running, controller_process,
                   wdMain, wdThread, pings>>
    /\ UNCHANGED <<tickVars, pinVars, cfgVars, bootVars, busVars, logVars, cliVars,
                   acqVars, parseVars, dispVars, csvVars, delayVars, webVars, obsVars,
                   frameVars, taskVars, srvVars>>

\* The child process ends.
WdChildExits ==
    /\ controller_process = "alive"
    /\ controller_process' = "exited"
    /\ UNCHANGED <<watchdog_interval, notify_socket, running, wdMain, wdThread,
                   pings, wdOut>>
    /\ UNCHANGED <<tickVars, pinVars, cfgVars, bootVars, busVars, logVars, cliVars,
                   acqVars, parseVars, dispVars, csvVars, delayVars, webVars, obsVars,
                   frameVars, taskVars, srvVars>>

\* run() reads end of file from a child that has exited: sys.exit(1).
WdMainSeesExit ==
    /\ wdMain = "streaming"
    /\ controller_process = "exited"
    /\ wdMain' = "exited"
    /\ wdThread' = (IF wdThread = "not_started" THEN wdThread ELSE "ended")
    /\ UNCHANGED <<watchdog_interval, notify_socket, running, controller_process,
                   pings, wdOut>>
    /\ UNCHANGED <<tickVars, pinVars, cfgVars, bootVars, busVars, logVars, cliVars,
                   acqVars, parseVars, dispVars, csvVars, delayVars, webVars, obsVars,
                   frameVars, taskVars, srvVars>>

\* signal_handler: running is cleared, the child is terminated and waited
\* for, sys.exit(0).
WdSignal ==
    /\ wdMain \in {"start_thread", "popen", "streaming"}
    /\ running' = FALSE
    /\ controller_process' = (IF controller_process = "alive" THEN "exited"
                              ELSE controller_process)
    /\ wdMain' = "exited"
    /\ wdThread' = (IF wdThread = "not_started" THEN wdThread ELSE "ended")
    /\ UNCHANGED <<watchdog_interval, notify_socket, pings, wdOut>>
    /\ UNCHANGED <<tickVars, pinVars, cfgVars, bootVars, busVars, logVars, cliVars,
                   acqVars, parseVars, dispVars, csvVars, delayVars, webVars, obsVars,
                   frameVars, taskVars, srvVars>>

InitWatchdogSpec == InitWith({<<450, 1170>>}, {FALSE})

NextWatchdog ==
    \/ WdConstruct
    \/ WdStartThread
    \/ \E ok \in BOOLEAN : WdPopen(ok)
    \/ WdCheck
    \/ WdSleepDone
    \/ WdChildOutput
    \/ WdChildExits
    \/ WdMainSeesExit
    \/ WdSignal

SpecWatchdog == InitWatchdogSpec /\ [][NextWatchdog]_vars

(***************************************************************************)
(* The web interface's POST /api/config (web/app.py): update_config with   *)
(* create_backup, write_config and restore_backup.                         *)
(***************************************************************************)
\* The JSON bodies told apart: a required field is missing; a value fails
\* write_config's checks; every value passes them but the file written
\* from them does not load (the time pattern's "$" also matches before a
\* final newline, which ends the string literal in the file); a body whose
\* file loads.
Bodies == {"missing", "invalid", "unloadable", "valid"}

\* create_config_content for request n with a body of kind b.
Written(n, b) == [id |-> n, loads |-> b = "valid"]

\* A request arrives; with a missing field it is answered 400 at once.
WebPost(b) ==
    /\ webPc = "idle"
    /\ reqCount < MaxRequests
    /\ reqCount' = reqCount + 1
    /\ webReq' = b
    /\ cfgBefore' = cfgFile
    /\ IF b = "missing"
       THEN webResp' = "error" /\ UNCHANGED webPc
       ELSE webResp' = "none" /\ webPc' = "backup"
    /\ UNCHANGED <<cfgFile, backupFile>>
    /\ UNCHANGED <<tickVars, pinVars, cfgVars, bootVars, busVars, logVars, cliVars,
                   acqVars, parseVars, dispVars, csvVars, delayVars, wdVars,
                   obsVars, frameVars, taskVars, srvVars>>

\* create_backup: the config file is copied to the backup file, or
\* ConfigPermissionError / ConfigBackupError is answered with 403 / 500.
WebBackup(ok) ==
    /\ webPc = "backup"
    /\ IF ok
       THEN backupFile' = cfgFile /\ webPc' = "write" /\ UNCHANGED webResp
       ELSE webResp' = "error" /\ webPc' = "idle" /\ UNCHANGED backupFile
    /\ UNCHANGED <<cfgFile, webReq, cfgBefore, reqCount>>
    /\ UNCHANGED <<tickVars, pinVars, cfgVars, bootVars, busVars, logVars, cliVars,
                   acqVars, parseVars, dispVars, csvVars, delayVars, wdVars,
                   obsVars, frameVars, taskVars, srvVars>>

\* write_config. The values are checked first; then the content is written
\* to the temporary file (ok: the permission check and that write worked)
\* and os.replace puts it in the place of the config file; then the file
\* in place is loaded and validated. Success is answered at once; every
\* exception leads to restore_backup.
WebWrite(ok) ==
    /\ webPc = "write"
    /\ IF webReq = "invalid" \/ ~ok
       THEN webPc' = "restore" /\ UNCHANGED <<cfgFile, webResp>>
       ELSE /\ cfgFile' = Written(reqCount, webReq)
            /\ IF Written(reqCount, webReq).loads
               THEN webResp' = "success" /\ webPc' = "idle"
               ELSE webPc' = "restore" /\ UNCHANGED webResp
    /\ UNCHANGED <<backupFile, webReq, cfgBefore, reqCount>>
    /\ UNCHANGED <<tickVars, pinVars, cfgVars, bootVars, busVars, logVars, cliVars,
                   acqVars, parseVars, dispVars, csvVars, delayVars, wdVars,
                   obsVars, frameVars, taskVars, srvVars>>

\* restore_backup in the handlers of update_config: the backup is copied
\* over the config file, or the restoration fails ("backup restoration
\* also failed"); the answer is an error either way.
WebRestore(ok) ==
    /\ webPc = "restore"
    /\ cfgFile' = (IF ok THEN backupFile ELSE cfgFile)
    /\ webResp' = "error"
    /\ webPc' = "idle"
    /\ UNCHANGED <<backupFile, webReq, cfgBefore, reqCount>>
    /\ UNCHANGED <<tickVars, pinVars, cfgVars, bootVars, busVars, logVars, cliVars,
                   acqVars, parseVars, dispVars, csvVars, delayVars, wdVars,
                   obsVars, frameVars, taskVars, srvVars>>

InitWebSpec == InitWith({<<450, 1170>>}, {FALSE})

NextWeb ==
    \/ \E b \in Bodies : WebPost(b)
    \/ \E ok \in BOOLEAN : WebBackup(ok)
    \/ \E ok \in BOOLEAN : WebWrite(ok)
    \/ \E ok \in BOOLEAN : WebRestore(ok)

SpecWeb == InitWebSpec /\ [][NextWeb]_vars

(***************************************************************************)
(* The readings log. log_readings is defined by GeckoController and called *)
(* from nowhere: control_loop goes from update_display to its sleep, so no *)
(* action applies this operator.                                           *)
(***************************************************************************)
\* "x if x is not None else -1".
OrSentinel(x) == IF x = Absent THEN -1 ELSE x

\* log_readings at time now: readings.csv and last_log_time afterwards.
log_readings(now, t, h, u, light, heat) ==
    IF now - last_log_time >= LOG_INTERVAL
    THEN [readings |-> Append(readings,
                          [temp |-> OrSentinel(t), humidity |-> OrSentinel(h),
                           uva |-> OrSentinel(u[1]), uvb |-> OrSentinel(u[2]),
                           uvc |-> OrSentinel(u[3]),
                           light |-> IF light THEN 1 ELSE 0,
                           heat |-> IF heat THEN 1 ELSE 0]),
          last_log_time |-> now]
    ELSE [readings |-> readings, last_log_time |-> last_log_time]

(***************************************************************************)
(* The display driver: write_cmd / write_data, write_with_retry and the    *)
(* init_display it calls after too many consecutive errors.                *)
(***************************************************************************)
WFrame(a) == [fn |-> "write", attempt |-> a, i |-> 0, retry_count |-> 0]
IFrame(i, rc) == [fn |-> "init", attempt |-> 0, i |-> i, retry_count |-> rc]

Top == dstack[Len(dstack)]
Pop == SubSeq(dstack, 1, Len(dstack) - 1)
SetTop(f) == [dstack EXCEPT ![Len(dstack)] = f]

\* How recover_i2c_bus leaves self.bus: close() and SMBus(1) worked, or
\* SMBus(1) raised and the closed handle stays.
RecoverOutcomes == {"open", "closed"}

\* self.consecutive_errors += 1; the driver only tests it against
\* MAX_RETRY_COUNT * 2, so it is counted up to there.
Bump(n) == IF n >= MAX_RETRY_COUNT * 2 THEN n ELSE n + 1

\* A caller invokes write_cmd or write_data.
DisplayWriteCmd ==
    /\ dstack = <<>>
    /\ dret = "none"
    /\ dstack' = <<WFrame(0)>>
    /\ busWrites' = 0
    /\ dResult' = "running"
    /\ UNCHANGED <<consecutive_errors, dret, dbus>>
    /\ UNCHANGED <<tickVars, pinVars, cfgVars, bootVars, busVars, logVars, cliVars,
                   acqVars, parseVars, csvVars, delayVars, wdVars, webVars, obsVars, frameVars, taskVars, srvVars>>

\* One iteration of write_with_retry's loop. After the first one the bus is
\* recovered (rec: how that leaves the handle). write_byte_data on a closed
\* handle raises TypeError, which leaves write_with_retry; on an open one
\* it succeeds or raises OSError (o). The last failed attempt calls
\* init_display when consecutive_errors has reached MAX_RETRY_COUNT * 2;
\* the bare except around that call also catches the RecursionError of a
\* call beyond the recursion limit.
DisplayAttempt(o, rec) ==
    /\ dstack # <<>>
    /\ dret = "none"
    /\ Top.fn = "write"
    /\ LET a == Top.attempt
           bus == IF a > 0 THEN rec ELSE dbus
           errs == Bump(consecutive_errors)
       IN  /\ dbus' = bus
           /\ busWrites' = IF busWrites >= MaxBusWrites THEN busWrites
                           ELSE busWrites + 1
           /\ IF bus = "closed"
              THEN /\ dstack' = Pop
                   /\ dret' = "raise"
                   /\ UNCHANGED consecutive_errors
              ELSE IF o = "ok"
              THEN /\ dstack' = Pop
                   /\ dret' = "True"
                   /\ consecutive_errors' = 0
              ELSE /\ consecutive_errors' = errs
                   /\ IF a < MAX_RETRY_COUNT - 1
                      THEN dstack' = SetTop(WFrame(a + 1)) /\ dret' = "none"
                      ELSE IF errs >= MAX_RETRY_COUNT * 2 /\ Len(dstack) < MaxDepth
                      THEN /\ dstack' = Append(dstack, IFrame(1, 0))
                           /\ dret' = "none"
                      ELSE dstack' = Pop /\ dret' = "False"
    /\ UNCHANGED dResult
    /\ UNCHANGED <<tickVars, pinVars, cfgVars, bootVars, busVars, logVars, cliVars,
                   acqVars, parseVars, csvVars, delayVars, wdVars, webVars, obsVars, frameVars, taskVars, srvVars>>

\* init_display calls write_cmd for its next command. A call beyond the
\* recursion limit raises RecursionError: in the loop of the first command
\* it is caught (retry_count += 1, the bus is recovered), elsewhere it leaves
\* init_display.
DisplayInitCall(rec) ==
    /\ dstack # <<>>
    /\ dret = "none"
    /\ Top.fn = "init"
    /\ Top.i <= INIT_COMMANDS
    /\ IF Len(dstack) < MaxDepth
       THEN dstack' = Append(dstack, WFrame(0)) /\ UNCHANGED <<dret, dbus>>
       ELSE IF Top.i = 1
       THEN /\ dstack' = SetTop(IF Top.retry_count + 1 < INIT_RETRIES
                                THEN IFrame(1, Top.retry_count + 1)
                                ELSE IFrame(2, 0))
            /\ dbus' = rec
            /\ UNCHANGED dret
       ELSE dstack' = Pop /\ dret' = "raise" /\ UNCHANGED dbus
    /\ UNCHANGED <<consecutive_errors, busWrites, dResult>>
    /\ UNCHANGED <<tickVars, pinVars, cfgVars, bootVars, busVars, logVars, cliVars,
                   acqVars, parseVars, csvVars, delayVars, wdVars, webVars, obsVars, frameVars, taskVars, srvVars>>

\* init_display has written its last command and returns.
DisplayInitDone ==
    /\ dstack # <<>>
    /\ dret = "none"
    /\ Top.fn = "init"
    /\ Top.i > INIT_COMMANDS
    /\ dstack' = Pop
    /\ dret' = "returned"
    /\ UNCHANGED <<consecutive_errors, busWrites, dResult, dbus>>
    /\ UNCHANGED <<tickVars, pinVars, cfgVars, bootVars, busVars, logVars, cliVars,
                   acqVars, parseVars, csvVars, delayVars, wdVars, webVars, obsVars, frameVars, taskVars, srvVars>>

\* An activation has ended and its caller goes on. The outermost caller
\* gets the value or the exception. init_display goes to its next command
\* whatever write_cmd returned; an exception is caught in the loop of the
\* first command and leaves init_display elsewhere. write_with_retry, which
\* called init_display in its handler, sets consecutive_errors to 0 when it
\* returned, and returns False either way.
DisplayReturn(rec) ==
    /\ dret # "none"
    /\ IF dstack = <<>>
       THEN /\ dResult' = (IF dret = "raise" THEN "raised" ELSE dret)
            /\ dret' = "none"
            /\ UNCHANGED <<dstack, consecutive_errors, dbus>>
       ELSE IF Top.fn = "init"
       THEN /\ UNCHANGED <<dResult, consecutive_errors>>
            /\ IF dret # "raise"
               THEN /\ dstack' = SetTop(IFrame(Top.i + 1, 0))
                    /\ dret' = "none"
                    /\ UNCHANGED dbus
               ELSE IF Top.i = 1
               THEN /\ dstack' = SetTop(IF Top.retry_count + 1 < INIT_RETRIES
                                        THEN IFrame(1, Top.retry_count + 1)
                                        ELSE IFrame(2, 0))
                    /\ dret' = "none"
                    /\ dbus' = rec
               ELSE dstack' = Pop /\ UNCHANGED <<dret, dbus>>
       ELSE /\ dstack' = Pop
            /\ dret' = "False"
            /\ consecutive_errors' = (IF dret = "returned" THEN 0
                                      ELSE consecutive_errors)
            /\ UNCHANGED <<dResult, dbus>>
    /\ UNCHANGED busWrites
    /\ UNCHANGED <<tickVars, pinVars, cfgVars, bootVars, busVars, logVars, cliVars,
                   acqVars, parseVars, csvVars, delayVars, wdVars, webVars, obsVars, frameVars, taskVars, srvVars>>

InitDisplaySpec == InitWith({<<450, 1170>>}, {FALSE})

NextDisplay ==
    \/ DisplayWriteCmd
    \/ \E o \in {"ok", "OSError"} : \E rec \in RecoverOutcomes : DisplayAttempt(o, rec)
    \/ \E rec \in RecoverOutcomes : DisplayInitCall(rec)
    \/ DisplayInitDone
    \/ \E rec \in RecoverOutcomes : DisplayReturn(rec)

SpecDisplay == InitDisplaySpec /\ [][NextDisplay]_vars

(***************************************************************************)
(* The heat policy: the packaged window, a day and a night clock reading   *)
(* (08:00 and 20:00) and every sampled temperature.                        *)
(***************************************************************************)
PackagedWindow == {<<450, 1170>>}
PolicyTimes == {480, 1200}

InitPolicy == InitWith(PackagedWindow, {TRUE})

NextPolicy ==
    \/ TickReadSensor(TempSamples)
    \/ TickReadUV
    \/ TickControl(PolicyTimes, {"none", "light", "heat"}, "last")
    \/ TickRender
    \/ TickSendImage
    \/ TickSleep

SpecPolicy == InitPolicy /\ [][NextPolicy]_vars

(***************************************************************************)
(* The light schedule: every sampled window and clock reading.             *)
(***************************************************************************)
LightTemps == {295}

InitLight == InitWith(WindowSamples, {TRUE})

NextLight ==
    \/ TickReadSensor(LightTemps)
    \/ TickReadUV
    \/ TickControl(TimeSamples, {"none", "light", "heat"}, "last")
    \/ TickRender
    \/ TickSendImage
    \/ TickSleep

SpecLight == InitLight /\ [][NextLight]_vars

(***************************************************************************)
(* Two evaluations of the policy compared: one control step is kept in     *)
(* memo and every later one is compared with it.                           *)
(***************************************************************************)
PurityTemps == {135, 295}

NextPurity ==
    \/ TickReadSensor(PurityTemps)
    \/ TickReadUV
    \/ TickControl(PolicyTimes, {"none"}, "memo")
    \/ TickRender
    \/ TickSendImage
    \/ TickSleep

SpecPurity == InitPolicy /\ [][NextPurity]_vars

(***************************************************************************)
(* Properties.                                                             *)
(***************************************************************************)
\* The control step recorded in ctl evaluated a present temperature inside
\* the band [target - tolerance, target + tolerance] without raising.
InBand(c) ==
    /\ c.raised = "none"
    /\ c.temp # Absent
    /\ c.target - TEMP_TOLERANCE <= c.temp
    /\ c.temp <= c.target + TEMP_TOLERANCE

\* The place of step e in the current tick's trace, 0 when it has not run.
Place(e) ==
    IF \E i \in 1..Len(tickTrace) : tickTrace[i] = e
    THEN CHOOSE i \in 1..Len(tickTrace) : tickTrace[i] = e
    ELSE 0

\* C1: after every control step the level of the heat relay equals the
\* heat_status the step produced, also when the temperature was absent or
\* the step raised.
C1_HeatRelayFollowsHeatStatus ==
    ctl.n > 0 => heatPin = heat_status

\* C2: a control step with a present temperature inside the band yields the
\* heat_status of the preceding tick.
C2_BandKeepsPreviousHeatStatus ==
    (ctl.n = 2 /\ InBand(ctl)) => ctl.heat = ctl.prev

\* C3: control_heat with an absent temperature returns False, whatever the
\* heat state before and whatever the relay level.
C3_AbsentTemperatureHeatOff ==
    (ctl.n > 0 /\ ctl.raised = "none" /\ ctl.temp = Absent)
        => (~ctl.heat /\ ~heat_status)

C3_Witness ==
    /\ ctl.n > 0 /\ ctl.raised = "none" /\ ctl.temp = Absent
    /\ ctl.prev /\ heatPin /\ ~heat_status

\* C4 as stated: from heatOn = true the series 29.5, 30.5, 29.2 against
\* target 30 and tolerance 1 yields true, false, false.
C4_SeriesAsStated ==
    scen.k = 3 => scen.out = <<TRUE, FALSE, FALSE>>

\* C4 amended: the series yields true, true, true, since 30.5 lies inside
\* the band [29, 31].
C4_SeriesStaysOn ==
    scen.k = 3 => scen.out = <<TRUE, TRUE, TRUE>>

C4_Witness ==
    scen.k = 3 /\ ctl.temp = 292 /\ ctl.target = DAY_TEMP /\ heatPin

\* C5: control_light drives the light relay HIGH and returns True exactly
\* when on-time <= now < off-time, and LOW/False otherwise; for 07:30-19:30
\* it is on at 08:00, off at 20:00 and off at 07:29.
C5_LightWindow ==
    LET inWindow == light_on_time <= ctl.now1 /\ ctl.now1 < light_off_time
        packaged == light_on_time = 450 /\ light_off_time = 1170
    IN  /\ (ctl.n > 0 /\ ctl.raised # "light") => (lightPin = inWindow)
        /\ (ctl.n > 0 /\ ctl.raised = "none") => (light_status = inWindow)
        /\ (ctl.n > 0 /\ ctl.raised = "none" /\ packaged) =>
               /\ ctl.now1 = 480 => (light_status /\ lightPin)
               /\ ctl.now1 = 1200 => (~light_status /\ ~lightPin)
               /\ ctl.now1 = 449 => (~light_status /\ ~lightPin)
               /\ ctl.now1 = 450 => (light_status /\ lightPin)
               /\ ctl.now1 = 1170 => (~light_status /\ ~lightPin)

C5_Witness ==
    /\ ctl.n = 2 /\ ctl.raised = "none"
    /\ light_on_time = 450 /\ light_off_time = 1170
    /\ ctl.now1 = 1170 /\ ~lightPin /\ ~light_status

\* C6: two control steps with the same temperature, clock readings and
\* previous heat_status produce the same light_status, heat_status and
\* target temperature.
C6_SameInputsSameOutputs ==
    (/\ memo.n > 0 /\ ctl.n > 0
     /\ memo.temp = ctl.temp /\ memo.now1 = ctl.now1 /\ memo.now2 = ctl.now2
     /\ memo.prev = ctl.prev)
        => (/\ memo.light = ctl.light
            /\ memo.heat = ctl.heat
            /\ memo.target = ctl.target)

\* C7: an unexpected error in a tick never ends the control_loop task, and
\* after the pause that follows it the loop is back at the top of its body,
\* starting the next tick, unless the task has been cancelled.
C7_LoopSurvivesError ==
    /\ [](loopTask # "failed")
    /\ ((pc = "pause" /\ loopTask = "running")
            ~> (pc = "read_sensor" \/ loopTask # "running"))

C7_Witness ==
    pc = "pause" /\ loopTask = "running" /\ tickTrace = <<>>

\* C8: when main has finished the shutdown path, both tasks have ended,
\* the socket file is unlinked and both relays are released and off.
C8_ShutdownReleasesAll ==
    mainPc = "exited" =>
        /\ TaskDone(loopTask) /\ TaskDone(serveTask)
        /\ ~sockFile
        /\ gpioReleased /\ ~lightPin /\ ~heatPin

C10_TickOrder ==
    /\ Place("read_uv") > 0 => Place("read_sensor") = 1
    /\ Place("control") > 0 =>
           (0 < Place("read_sensor") /\ Place("read_sensor") < Place("read_uv")
            /\ Place("read_uv") < Place("control"))
    /\ Place("render") > 0 =>
           (0 < Place("control") /\ Place("control") < Place("render"))
    /\ Place("render_failed") > 0 =>
           (0 < Place("control") /\ Place("send_image") = 0)
    /\ Place("send_image") > 0 =>
           (0 < Place("render") /\ Place("render") < Place("send_image"))

C10_Witness ==
    tickTrace = <<"read_sensor", "read_uv", "control", "render", "send_image">>

\* C11: after a fatal setup fault (relay outputs not acquired, socket not
\* bound) the control loop is never created and the process that exits has
\* a non-zero exit status.
C11_FatalSetupFaultAborts ==
    /\ setupFault # "none" => loopTask = "not_created"
    /\ (setupFault # "none" /\ mainPc = "exited") => startupExit > 0

\* C12: a wrapped call whose primitive fails k < max_attempts times and then
\* succeeds returns the result after exactly k + 1 calls; one whose
\* primitive always fails returns None after exactly max_attempts calls.
C12_RetryCountExact ==
    /\ busCalls <= max_attempts
    /\ busResult \notin {"idle", "running"} =>
          \/ busResult = "value" /\ busFails < max_attempts
                /\ busCalls = busFails + 1
          \/ busResult = "none" /\ busFails = max_attempts
                /\ busCalls = max_attempts

\* C13: whatever the primitive raises, the wrapped call returns (a value
\* or None) and never raises.
C13_WrapperNeverRaises ==
    busResult # "raised"

\* C14: for every should_log_error call that returned True at time t, at
\* most max_errors calls returned True with a timestamp in (t - 60, t].
C14_RateLimited ==
    \A i \in 1..Len(logged) :
        Cardinality({j \in 1..Len(logged) :
                        logged[i] - WINDOW < logged[j] /\ logged[j] <= logged[i]})
            <= max_errors

C14_Witness ==
    /\ Len(logged) >= 2
    /\ suppressed_count > 0
    /\ logged[Len(logged)] - logged[1] = WINDOW - 1

\* C15: a handler that compresses the held frame for its client never does
\* so while that frame is being drawn.
C15_NoTornFrameCompressed ==
    [][\A c \in Clients :
          (conns[c] = "accepted" /\ conns'[c] # "accepted" /\ current_image # "none")
              => HeldFrame # "drawing"]_vars

\* C16: a tick whose rendering failed does not call send_image, and the
\* frame the server holds afterwards is a completely drawn one (or none).
C16_FailedRenderKeepsLastFrame ==
    Place("render_failed") > 0 =>
        (Place("send_image") = 0 /\ HeldFrame \in {"none", "frame"})

\* C17: once the instance is initialized, a further construction returns
\* it untouched: the socket file, the listener and the current frame stay
\* as they are; and an instance once created is never replaced.
C17_SingletonInitializedOnce ==
    [][/\ (constructions' # constructions /\ instance = "initialized") =>
              (/\ instance' = instance
               /\ sockFile' = sockFile
               /\ server' = server
               /\ current_image' = current_image)
       /\ instance # "none" => instance' # "none"]_vars

C17_Witness ==
    /\ constructions >= 2
    /\ instance = "initialized"
    /\ server = "open" /\ sockFile /\ current_image # "none"

\* C18: whether or not a socket file was left at socket_path, a startup
\* without setup fault ends with the server listening, and every client
\* handled afterwards is given a response.
C18_StaleSocketThenResponse ==
    /\ (runPc = "gather" /\ setupFault = "none") => (display_socket /\ server = "open")
    /\ \A c \in Clients : conns[c] # "sent_nothing"

\* C19: a stop() that returns leaves no listener and no socket file, and a
\* stop() on a server that is not there (stopped before, or never started)
\* changes nothing.
C19_StopIdempotent ==
    [][(CleanupStop /\ cl'.pc = "gpio") =>
          /\ server' = "none" /\ ~sockFile'
          /\ server = "none" =>
                (/\ sockFile' = sockFile
                 /\ current_image' = current_image
                 /\ lock' = lock
                 /\ blocked' = blocked)]_vars

C19_Witness ==
    /\ cl.by = "main" /\ cl.pc = "gpio"
    /\ display_socket /\ gpioReleased
    /\ server = "none" /\ ~sockFile

\* C20: once the handler of one connection has ended in an error, every
\* other connection the server has handled has been given a response (the
\* image or the error envelope).
C20_OtherConnectionsGetResponse ==
    \A c \in Clients : \A d \in Clients \ {c} :
        conns[c] = "sent_nothing" => conns[d] # "sent_nothing"

\* C21: when a get_image call reads the answer of the started server that
\* holds a frame f, the call returns (True, image, None) with an image of
\* the pixel dimensions of f.
C21_RoundTripKeepsDimensions ==
    [][\A k \in Callers :
          (/\ peer = "server" /\ server = "open" /\ current_image # "none"
           /\ gi[k].pc = "reading"
           /\ gi[k].wire = Served(current_image, frame)
           /\ gi'[k] # gi[k])
          => (/\ gi'[k].pc = "returned"
              /\ gi'[k].result.ok
              /\ gi'[k].result.error = "none"
              /\ gi'[k].result.image.dims = frame.dims)]_vars

\* C22: the handler of a connection made while no frame is held writes the
\* error envelope (4-byte length of the body, status "error", no image)
\* and closes the connection.
C22_NoFrameErrorEnvelope ==
    [][\A c \in Clients :
          (conns[c] = "accepted" /\ current_image = "none" /\ conns'[c] # conns[c])
          => (/\ conns'[c] = "sent_error"
              /\ LET w == Served(current_image, frame) IN
                    /\ w.status = "error"
                    /\ w.image = NoImage
                    /\ w.len = BodyLen("error", NoImage))]_vars

C22_Witness == \E c \in Clients : conns[c] = "sent_error" /\ current_image = "none"

\* C23: a get_image call makes at most max_retries connection attempts.
C23_AtMostMaxRetriesAttempts ==
    \A k \in Callers : gi[k].attempts <= max_retries

\* C24: when the answer a get_image call reads carries image data larger
\* than max_size, or data that is not a sound image, the call returns a
\* failure result: ok is False, no image, an error.
C24_RejectedPayloadReturnsFailure ==
    [][\A k \in Callers :
          (/\ gi[k].pc = "reading"
           /\ gi[k].wire.status = "success"
           /\ ~validate_image(gi[k].wire.image)
           /\ gi'[k] # gi[k])
          => (/\ gi'[k].pc = "returned"
              /\ ~gi'[k].result.ok
              /\ gi'[k].result.image = NoImage
              /\ gi'[k].result.error # "none")]_vars

C30_NoLockAcrossSuspension ==
    /\ lock = "free"
    /\ clientLock = 0
    /\ ~blocked
    /\ ~clientBlocked

\* C26: at policy evaluation, a temperature and humidity the sensor
\* delivered in range are present whatever read_uv did, a humidity
\* delivered in range is present also when the temperature was not, and
\* every UV channel delivered in range is present also when another
\* channel was not.
C26_FaultStaysInItsChannel ==
    pc = "control" =>
        /\ (acq.sensor = "data" /\ TempInRange(acq.rawT) /\ HumInRange(acq.rawH))
              => (temp # Absent /\ humidity # Absent)
        /\ (acq.sensor = "data" /\ HumInRange(acq.rawH)) => humidity # Absent
        /\ acq.uv = "values" =>
              \A i \in 1..3 :
                  (/\ acq.rawUV[i] # Absent
                   /\ 0 <= acq.rawUV[i] /\ acq.rawUV[i] <= UV_RAW_MAX
                   /\ Corrected(acq.rawUV[i]) # Absent)
                  => uvs[i] # Absent

\* C27: read_sensor and read_uv return to control_loop without raising,
\* whatever the bus does, each field they return is a value or absent,
\* read_uv makes at most three attempts, and the tick goes on to the next
\* step and so to the policy.
C27_AcquisitionNeverRaises ==
    [][/\ uvAttempt < RETRIES
       /\ (pc = "read_sensor" /\ pc' # pc) =>
             (/\ pc' = "read_uv"
              /\ ~escaped'
              /\ temp' = Absent \/ temp' \in -400..1250
              /\ humidity' = Absent \/ humidity' \in 0..1000)
       /\ (pc = "read_uv" /\ pc' # pc) =>
             (/\ pc' = "control"
              /\ ~escaped'
              /\ \A i \in 1..3 :
                    uvs'[i] = Absent \/ uvs'[i] \in 0..(UV_CORRECTED_MAX * 1000))]_vars

C27_Witness ==
    /\ pc = "render"
    /\ acq.sensor = "fault" /\ acq.uv = "OSError"
    /\ temp = Absent /\ humidity = Absent /\ uvs = NoUV

\* C28: a setting of two numbers h, m with 0 <= h <= 23 and 0 <= m <= 59
\* parses to h:m, one number h with 0 <= h <= 23 to h:00, and every other
\* setting to midnight; parsing never raises.
C28_ParseTimeSetting ==
    parsePc # "start" =>
        /\ parsePc = "done"
        /\ \A i \in 1..2 :
              LET fs == settings[i]
                  got == IF i = 1 THEN light_on_time ELSE light_off_time
              IN  got = (IF Len(fs) = 2 /\ fs[1].num /\ fs[2].num
                            /\ fs[1].val \in 0..23 /\ fs[2].val \in 0..59
                         THEN 60 * fs[1].val + fs[2].val
                         ELSE IF Len(fs) = 1 /\ fs[1].num /\ fs[1].val \in 0..23
                         THEN 60 * fs[1].val
                         ELSE 0)

\* C29: in every control step that decided the heat from a temperature,
\* the target it used is DAY_TEMP if the step's light status is on and
\* MIN_TEMP if it is off.
C29_TargetFollowsLight ==
    (ctl.n # 0 /\ ctl.raised = "none" /\ ctl.temp # Absent) =>
        ctl.target = (IF ctl.light THEN DAY_TEMP ELSE MIN_TEMP)

\* C31: what the server writes is the length of the body followed by the
\* body, and the client gives json.loads only a body it has received in
\* full after a full 4-byte prefix, however the stream delivers the data.
C31_FramingRespected ==
    /\ LET w == Served(current_image, frame) IN
          w.status # "eof" => w.len = BodyLen(w.status, w.image)
    /\ \A k \in Callers : gi[k].parsed # "partial"


\* C32: in a wrapper call whose faults are all "device not responding"
\* ([Errno 121]), the wait before the first retry equals the configured
\* delay and the wait before each later retry is backoff times the previous
\* wait.
C32_BackoffWaits ==
    faultKinds \subseteq {"Errno121"} =>
        /\ Len(waits) >= 1 => waits[1] = delay
        /\ \A i \in 1..(Len(waits) - 1) : waits[i + 1] = BACKOFF * waits[i]

\* C33: every should_log_error call that returned False is counted in
\* exactly one "Suppressed n" line or is still in the counter; and the next
\* call that returns True after a suppression logs one line with the counter
\* and sets the counter to 0.
C33_SuppressedReportedOnce ==
    /\ [](suppressedEver = reported + suppressed_count)
    /\ [][(suppressed_count > 0 /\ suppressedEver' = suppressedEver
              /\ logged' # logged)
          => (reported' = reported + suppressed_count /\ suppressed_count' = 0)]_vars

\* A summary line has been logged and calls are being suppressed again.
C33_Witness ==
    /\ reported > 0
    /\ suppressed_count > 0


\* C34: read_sensor closes and reopens the bus handle only when at least two
\* bus calls in a row have failed, never on an isolated fault, and the handle
\* is open for the following tick.
C34_ResetOnlyAfterRepeatedFaults ==
    acq.reset => (faultRun >= 2 /\ busHandle = "open")


\* C35: one write_cmd / write_data call makes at most MAX_RETRY_COUNT bus
\* write attempts, and when every attempt failed it returns False.
C35_AtMostThreeWrites ==
    /\ busWrites <= MAX_RETRY_COUNT
    /\ dResult # "raised"


\* C36: when a tick has published its frame and goes to sleep, either less
\* than LOG_INTERVAL has passed since the last logged line or the tick has
\* appended a reading line.
C36_DueTickLogsOneLine ==
    (pc = "sleep" /\ time_time - last_log_time >= LOG_INTERVAL)
        => readings # <<>>


\* C37: while the tick is in one of its delays, the handler of an accepted
\* connection can run and the shutdown signal can be taken, which cancels
\* the tasks.
C37_DelaysAreSuspensionPoints ==
    InDelay /\ ~blocked /\ mainPc # "exited" =>
        /\ \A c \in Clients : conns[c] = "accepted" => ENABLED HandleClient(c)
        /\ mainPc = "wait_signal" => ENABLED Signal


\* C38: while no shutdown signal has arrived, a socket-server task that has
\* failed leaves the control loop running and the GPIO pins in use.
C38_ServerFailureKeepsLoop ==
    (mainPc = "wait_signal" /\ serveTask \in {"failing", "failed"}) =>
        (loopTask = "running" /\ ~gpioReleased)


\* C39: with the watchdog enabled, the watchdog thread is in its loop
\* (checking or sleeping between pings) for as long as the child process is
\* alive and no shutdown was requested.
C39_PingsWhileChildAlive ==
    (watchdog_interval /\ running /\ wdMain = "streaming"
        /\ controller_process = "alive")
    => wdThread \in {"checking", "sleeping"}


\* C40: after a POST /api/config answered with an error the config file has
\* the content it had when the request arrived, and the file's content only
\* ever changes to a configuration that loads and validates.
C40_FailedPostLeavesConfig ==
    /\ []((webPc = "idle" /\ webResp = "error") => cfgFile = cfgBefore)
    /\ [][cfgFile' # cfgFile => cfgFile'.loads]_vars

====
